---- MODULE Spec2Model ----
(***************************************************************************)
(* Model of the bind-pdf foliation pipeline (modules/bind_pdf/core.py and  *)
(* modules/bind_pdf/api.py): the foliation comparator compare_foliation,   *)
(* the per-page processing loop of process_pdf and its run summary.        *)
(*                                                                         *)
(* Python values are represented as follows.                               *)
(*   str        a sequence of one-character strings                        *)
(*   float      a binary64 value [s, m, e] = s * m * 2^e with a 53-bit     *)
(*              significand m held as base-2^15 limbs (TLC integers are    *)
(*              32 bits wide), every operation rounded to nearest-even     *)
(*   round(x,2) the integer number of hundredths of the rounded value      *)
(*   round(x,3) the integer number of thousandths of the rounded value     *)
(*   None       the empty sequence, Some(v) the sequence <<v>>             *)
(*   dict       a record whose DOMAIN is the set of keys present           *)
(***************************************************************************)
EXTENDS Integers, Sequences, FiniteSets, TLC

(***************************************************************************)
(* Bounds of the model.                                                    *)
(***************************************************************************)
\* longest OCR string handed to compare_foliation
MaxLen == 2
\* largest expected page number handed to compare_foliation
MaxPageNum == 3
\* most pages of an uploaded document
MaxPages == 3
\* most detections on a page
MaxDet == 2
\* most detections in a document
MaxDetections == 3
\* most calls of predict_array and of the OCR getters in a process
MaxCalls == 4

(***************************************************************************)
(* binary64 arithmetic.                                                    *)
(***************************************************************************)
\* width of the significand of a Python float
MantBits == 53
\* limbs are digits in base 2^15, so products of two limbs fit a TLC integer
Base == 2 ^ 15
LimbBits == CHOOSE k \in 1..30 : 2 ^ k = Base
\* extra quotient limbs computed by a division before rounding
GuardLimbs == MantBits \div LimbBits + 2

Max2(a, b) == IF a > b THEN a ELSE b
Min2(a, b) == IF a < b THEN a ELSE b

ZeroLimbs(k) == [i \in 1..k |-> 0]

\* drop the leading zero limbs
StripLimbs(n) ==
  IF \A i \in 1..Len(n) : n[i] = 0 THEN <<>>
  ELSE SubSeq(n, CHOOSE i \in 1..Len(n) :
                   n[i] # 0 /\ \A j \in 1..(i - 1) : n[j] = 0, Len(n))

PadLimbs(n, k) == ZeroLimbs(k - Len(n)) \o n

RECURSIVE NatToLimbs(_)
NatToLimbs(n) ==
  IF n = 0 THEN <<>> ELSE Append(NatToLimbs(n \div Base), n % Base)

RECURSIVE LimbsToNat(_)
LimbsToNat(n) ==
  IF n = <<>> THEN 0
  ELSE Base * LimbsToNat(SubSeq(n, 1, Len(n) - 1)) + n[Len(n)]

\* number of significant bits of a limb value
LimbLen(v) ==
  IF v = 0 THEN 0 ELSE CHOOSE k \in 1..LimbBits : 2 ^ (k - 1) <= v /\ v < 2 ^ k

BitLen(n0) ==
  LET n == StripLimbs(n0)
  IN IF n = <<>> THEN 0 ELSE LimbBits * (Len(n) - 1) + LimbLen(n[1])

\* long division of a limb string by a small divisor
RECURSIVE DivStep(_, _, _, _, _)
DivStep(n, d, i, r, q) ==
  IF i > Len(n) THEN [q |-> q, r |-> r]
  ELSE LET t == Base * r + n[i]
       IN DivStep(n, d, i + 1, t % d, Append(q, t \div d))

\* n * k + carry for a small multiplier
RECURSIVE MulStep(_, _, _, _, _)
MulStep(n, k, i, carry, acc) ==
  IF i = 0 THEN NatToLimbs(carry) \o acc
  ELSE LET t == n[i] * k + carry
       IN MulStep(n, k, i - 1, t \div Base, <<t % Base>> \o acc)

MulLimbs(n, k) == MulStep(n, k, Len(n), 0, <<>>)
IncLimbs(n) == MulStep(n, 1, Len(n), 1, <<>>)

\* a - b for limb strings of equal length with a >= b
RECURSIVE SubStep(_, _, _, _, _)
SubStep(a, b, i, borrow, acc) ==
  IF i = 0 THEN acc
  ELSE LET t == a[i] - b[i] - borrow
       IN SubStep(a, b, i - 1, IF t < 0 THEN 1 ELSE 0,
                  <<IF t < 0 THEN t + Base ELSE t>> \o acc)

\* a < b for limb strings of equal length
LimbsLess(a, b) ==
  \E i \in 1..Len(a) : a[i] < b[i] /\ \A j \in 1..(i - 1) : a[j] = b[j]

ShiftLeft(n, s) ==
  StripLimbs(MulLimbs(n, 2 ^ (s % LimbBits)) \o ZeroLimbs(s \div LimbBits))

\* (n + frac) / 2^s rounded to the nearest integer, ties to even, where
\* frac in [0,1) is nonzero iff sticky; s >= 1
RoundShift(n, s, sticky) ==
  LET q == (s - 1) \div LimbBits
      r == s - LimbBits * q
  IN IF q >= Len(n) THEN <<>>
     ELSE LET dv == DivStep(SubSeq(n, 1, Len(n) - q), 2 ^ r, 1, 0, <<>>)
              low == sticky \/ \E i \in (Len(n) - q + 1)..Len(n) : n[i] # 0
              half == 2 ^ (r - 1)
              odd == dv.q # <<>> /\ dv.q[Len(dv.q)] % 2 = 1
              up == dv.r > half \/ (dv.r = half /\ (low \/ odd))
          IN StripLimbs(IF up THEN IncLimbs(dv.q) ELSE dv.q)

\* n / 2^s rounded toward zero; s >= 1
FloorShift(n, s) ==
  LET q == (s - 1) \div LimbBits
      r == s - LimbBits * q
  IN IF q >= Len(n) THEN <<>>
     ELSE StripLimbs(DivStep(SubSeq(n, 1, Len(n) - q), 2 ^ r, 1, 0, <<>>).q)

FZero == [s |-> 0, m |-> <<>>, e |-> 0]

\* the double nearest to sgn * (n + frac) * 2^e, ties to even
FRound(sgn, n0, e, sticky) ==
  CHOOSE r \in
    {LET L == BitLen(n)
     IN IF L = 0 THEN FZero
        ELSE IF L <= MantBits
             THEN [s |-> sgn, m |-> ShiftLeft(n, MantBits - L),
                   e |-> e - (MantBits - L)]
             ELSE LET m1 == RoundShift(n, L - MantBits, sticky)
                  IN IF BitLen(m1) > MantBits
                     THEN [s |-> sgn, m |-> FloorShift(m1, 1),
                           e |-> e + (L - MantBits) + 1]
                     ELSE [s |-> sgn, m |-> m1, e |-> e + (L - MantBits)] :
     n \in {StripLimbs(n0)}} : TRUE

\* float(n) for an int n
FromInt(n) ==
  IF n = 0 THEN FZero
  ELSE FRound(IF n < 0 THEN -1 ELSE 1, NatToLimbs(IF n < 0 THEN -n ELSE n), 0, FALSE)

\* x / d for a float x and a small positive integer-valued float d
FDivSmall(x, d) ==
  IF x.s = 0 THEN FZero
  ELSE LET dv == DivStep(x.m \o ZeroLimbs(GuardLimbs), d, 1, 0, <<>>)
       IN FRound(x.s, dv.q, x.e - LimbBits * GuardLimbs, dv.r # 0)

\* x * k for a float x and a small positive integer-valued float k
FMulSmall(x, k) ==
  IF x.s = 0 THEN FZero ELSE FRound(x.s, MulLimbs(x.m, k), x.e, FALSE)

\* a - b for floats a >= 0 and b >= 0
FSub(a, b) ==
  IF b.s = 0 THEN a
  ELSE IF a.s = 0 THEN [b EXCEPT !.s = -1]
  ELSE LET e == Min2(a.e, b.e)
           A0 == ShiftLeft(a.m, a.e - e)
           B0 == ShiftLeft(b.m, b.e - e)
           k == Max2(Len(A0), Len(B0))
           A == PadLimbs(A0, k)
           B == PadLimbs(B0, k)
       IN IF A = B THEN FZero
          ELSE IF LimbsLess(A, B)
               THEN FRound(-1, SubStep(B, A, k, 0, <<>>), e, FALSE)
               ELSE FRound(1, SubStep(A, B, k, 0, <<>>), e, FALSE)

\* a + b for limb strings of equal length
RECURSIVE AddStep(_, _, _, _, _)
AddStep(a, b, i, carry, acc) ==
  IF i = 0 THEN NatToLimbs(carry) \o acc
  ELSE LET t == a[i] + b[i] + carry
       IN AddStep(a, b, i - 1, t \div Base, <<t % Base>> \o acc)

\* a + b for floats a >= 0 and b >= 0
FAdd(a, b) ==
  IF b.s = 0 THEN a
  ELSE IF a.s = 0 THEN b
  ELSE LET e == Min2(a.e, b.e)
           A0 == ShiftLeft(a.m, a.e - e)
           B0 == ShiftLeft(b.m, b.e - e)
           k == Max2(Len(A0), Len(B0))
       IN FRound(1, AddStep(PadLimbs(A0, k), PadLimbs(B0, k), k, 0, <<>>), e, FALSE)

\* max(0.0, x)
FMax0(x) == IF x.s < 0 THEN FZero ELSE x

\* int(x): truncation toward zero
FTrunc(x) ==
  IF x.s = 0 THEN 0
  ELSE x.s * LimbsToNat(IF x.e >= 0 THEN ShiftLeft(x.m, x.e)
                        ELSE FloorShift(x.m, -x.e))

\* round(x, ndigits) in units of 1/scale, scale = 10^ndigits: the integer
\* nearest to the exact product x * scale, ties to even
FRoundDec(x, scale) ==
  IF x.s = 0 THEN 0
  ELSE x.s * LimbsToNat(IF x.e >= 0 THEN ShiftLeft(MulLimbs(x.m, scale), x.e)
                        ELSE RoundShift(MulLimbs(x.m, scale), -x.e, FALSE))

\* -x
FNeg(x) == [x EXCEPT !.s = -x.s]

\* abs(x)
FAbs(x) == [x EXCEPT !.s = IF x.s = 0 THEN 0 ELSE 1]

\* a + b for floats of any sign; each operand is evaluated once
FPlus(a0, b0) ==
  CHOOSE r \in {IF a.s >= 0 /\ b.s >= 0 THEN FAdd(a, b)
                ELSE IF a.s <= 0 /\ b.s <= 0 THEN FNeg(FAdd(FAbs(a), FAbs(b)))
                ELSE IF a.s > 0 THEN FSub(a, FAbs(b))
                ELSE FSub(b, FAbs(a)) : a \in {a0}, b \in {b0}} : TRUE

\* a - b for floats of any sign
FMinus(a, b) == FPlus(a, FNeg(b))

\* a < b
FLess(a, b) == FMinus(a, b).s < 0

\* a * b for limb strings
RECURSIVE MulLong(_, _)
MulLong(a, b) ==
  IF b = <<>> THEN <<>>
  ELSE CHOOSE r \in
         {LET k == Max2(Len(hi), Len(lo))
          IN AddStep(PadLimbs(hi, k), PadLimbs(lo, k), k, 0, <<>>) :
          hi \in {MulLong(a, SubSeq(b, 1, Len(b) - 1)) \o <<0>>},
          lo \in {MulLimbs(a, b[Len(b)])}} : TRUE

\* a * b for floats; each operand is evaluated once
FMul(a0, b0) ==
  CHOOSE r \in {IF a.s = 0 \/ b.s = 0 THEN FZero
                ELSE FRound(a.s * b.s, MulLong(a.m, b.m), a.e + b.e, FALSE) :
                a \in {a0}, b \in {b0}} : TRUE

(***************************************************************************)
(* Python strings, int(str) and str(int).                                  *)
(***************************************************************************)
DigitChars == <<"0", "1", "2", "3", "4", "5", "6", "7", "8", "9">>
IsDigit(c) == \E d \in 1..10 : DigitChars[d] = c
DigitVal(c) == (CHOOSE d \in 1..10 : DigitChars[d] = c) - 1
IsSpace(c) == c \in {" ", "\n"}

\* str.strip(): drop leading and trailing whitespace
StripWs(s) ==
  LET keep == {i \in 1..Len(s) : ~IsSpace(s[i])}
  IN IF keep = {} THEN <<>>
     ELSE SubSeq(s, CHOOSE i \in keep : \A j \in keep : i <= j,
                    CHOOSE i \in keep : \A j \in keep : i >= j)

\* value of a string of decimal digits and digit-group underscores
RECURSIVE DigitsValue(_)
DigitsValue(b) ==
  IF b = <<>> THEN 0
  ELSE LET front == SubSeq(b, 1, Len(b) - 1)
           c == b[Len(b)]
       IN IF c = "_" THEN DigitsValue(front)
          ELSE 10 * DigitsValue(front) + DigitVal(c)

\* int(s) in base 10: optional surrounding whitespace, an optional sign,
\* then digits with single underscores allowed between digits.
\* ok = FALSE stands for the ValueError that int() raises.
PyInt(s) ==
  LET t == StripWs(s)
      signed == t # <<>> /\ t[1] \in {"+", "-"}
      b == IF signed THEN Tail(t) ELSE t
      wellFormed ==
        /\ b # <<>>
        /\ \A i \in 1..Len(b) : IsDigit(b[i]) \/ b[i] = "_"
        /\ IsDigit(b[1]) /\ IsDigit(b[Len(b)])
        /\ \A i \in 1..(Len(b) - 1) : ~(b[i] = "_" /\ b[i + 1] = "_")
  IN IF ~wellFormed THEN [ok |-> FALSE, val |-> 0]
     ELSE [ok |-> TRUE,
           val |-> IF signed /\ t[1] = "-" THEN -DigitsValue(b) ELSE DigitsValue(b)]

\* str(n) for an int n
RECURSIVE NatToStr(_)
NatToStr(n) ==
  IF n < 10 THEN <<DigitChars[n + 1]>>
  ELSE Append(NatToStr(n \div 10), DigitChars[(n % 10) + 1])

PyStr(n) == IF n < 0 THEN <<"-">> \o NatToStr(-n) ELSE NatToStr(n)

None == <<>>
Some(v) == <<v>>

(***************************************************************************)
(* compare_foliation (core.py).  The returned dict is a record; confidence *)
(* is held in hundredths, as returned by round(confidence, 2).  A call     *)
(* that raises returns [exception |-> name] instead.                       *)
(***************************************************************************)
\* `if not ocr_digits`
IsEmptyInput_ZeroIsFalsy(ocr_digits) ==
  ocr_digits = <<>> \/ (PyInt(ocr_digits).ok /\ PyInt(ocr_digits).val = 0)

IsEmptyInput(ocr_digits) == ocr_digits = <<>>

\* the dict returned for empty and for unparsable digits
Unparsable ==
  [match |-> FALSE, diff |-> None, confidence |-> 0, match_percentage |-> 0]

\* abs(detected - page_num)
AbsDiff_Signed(detected, page_num) == detected - page_num

AbsDiff(detected, page_num) ==
  IF detected < page_num THEN page_num - detected ELSE detected - page_num

\* the float literals 1.0, 0.8 and 0.5
FOne == FromInt(1)
FEightTenths == FDivSmall(FromInt(8), 10)
FHalf == FDivSmall(FromInt(5), 10)

\* the if/elif/else ladder: confidence (a float) and match_percentage
Score_Diff3Decays(diff) ==
  IF diff = 0 THEN [confidence |-> FOne, match_percentage |-> 100]
  ELSE IF diff = 1 THEN [confidence |-> FEightTenths, match_percentage |-> 80]
  ELSE IF diff <= 2 THEN [confidence |-> FHalf, match_percentage |-> 50]
  ELSE LET confidence == FMax0(FSub(FOne, FDivSmall(FromInt(diff), 10)))
       IN [confidence |-> confidence,
           match_percentage |-> Max2(0, FTrunc(FMulSmall(confidence, 100)))]

Score_Unclipped(diff) ==
  IF diff = 0 THEN [confidence |-> FOne, match_percentage |-> 100]
  ELSE IF diff = 1 THEN [confidence |-> FEightTenths, match_percentage |-> 80]
  ELSE IF diff <= 3 THEN [confidence |-> FHalf, match_percentage |-> 50]
  ELSE LET confidence == FSub(FOne, FDivSmall(FromInt(diff), 10))
       IN [confidence |-> confidence,
           match_percentage |-> Max2(0, FTrunc(FMulSmall(confidence, 100)))]

Score(diff) ==
  IF diff = 0 THEN [confidence |-> FOne, match_percentage |-> 100]
  ELSE IF diff = 1 THEN [confidence |-> FEightTenths, match_percentage |-> 80]
  ELSE IF diff <= 3 THEN [confidence |-> FHalf, match_percentage |-> 50]
  ELSE LET confidence == FMax0(FSub(FOne, FDivSmall(FromInt(diff), 10)))
       IN [confidence |-> confidence,
           match_percentage |-> Max2(0, FTrunc(FMulSmall(confidence, 100)))]

\* the dict returned for parsable digits
Verdict(diff) ==
  LET sc == Score(diff)
  IN [match |-> diff = 0,
      diff |-> Some(diff),
      confidence |-> FRoundDec(sc.confidence, 100),
      match_percentage |-> sc.match_percentage]

compare_foliation_NoExcept(ocr_digits, page_num) ==
  IF IsEmptyInput(ocr_digits) THEN Unparsable
  ELSE LET detected == PyInt(ocr_digits)
       IN IF ~detected.ok THEN [exception |-> "ValueError"]
          ELSE Verdict(AbsDiff(detected.val, page_num))

compare_foliation(ocr_digits, page_num) ==
  IF IsEmptyInput(ocr_digits) THEN Unparsable
  ELSE LET detected == PyInt(ocr_digits)
       IN IF ~detected.ok THEN Unparsable
          ELSE Verdict(AbsDiff(detected.val, page_num))

(***************************************************************************)
(* Python dicts: the keys present are the DOMAIN of the record.            *)
(***************************************************************************)
Has(p, k) == k \in DOMAIN p
Put(p, k, v) == [x \in DOMAIN p \cup {k} |-> IF x = k THEN v ELSE p[x]]
Del(p, k) == [x \in DOMAIN p \ {k} |-> p[x]]

\* " ".join(words)
RECURSIVE Join(_)
Join(words) ==
  IF words = <<>> THEN <<>>
  ELSE IF Len(words) = 1 THEN words[1]
  ELSE words[1] \o <<" ">> \o Join(Tail(words))

\* a decimal digit of another script, which \d of a str pattern matches as
\* 0-9: ARABIC-INDIC DIGIT THREE, written by its code point
OtherDecimals == {"U+0663"}

\* what \d matches
IsDecimal(c) == IsDigit(c) \/ c \in OtherDecimals

\* re.sub(r"\D", "", text)
OnlyDigits(text) == SelectSeq(text, IsDecimal)

(***************************************************************************)
(* _normalize_to_digits (core.py).                                         *)
(***************************************************************************)
ConfusionTable ==
  [O |-> "0", o |-> "0", D |-> "0", Q |-> "0",
   I |-> "1", l |-> "1", Z |-> "2", E |-> "3", A |-> "4",
   S |-> "5", s |-> "5", G |-> "6", T |-> "7", B |-> "8",
   g |-> "9", q |-> "9"]

\* m.get(ch, ch)
Substitute(ch) ==
  IF ch \in {"|", "!"} THEN "1"
  ELSE IF ch \in DOMAIN ConfusionTable THEN ConfusionTable[ch]
  ELSE ch

_normalize_to_digits_DropsLeadingZero(text) ==
  LET digits == OnlyDigits([i \in 1..Len(text) |-> Substitute(text[i])])
  IN IF text = <<>> THEN <<>>
     ELSE IF digits # <<>> /\ digits[1] = "0" THEN Tail(digits)
     ELSE digits

_normalize_to_digits(text) ==
  IF text = <<>> THEN <<>>
  ELSE OnlyDigits([i \in 1..Len(text) |-> Substitute(text[i])])

(***************************************************************************)
(* The digit-engine cascade (core.py).  preds is the list of prediction    *)
(* dicts of the page, H the indices of the predictions handed to OCR, env  *)
(* tells which OCR packages can be imported, and every operator returns    *)
(* the set of outcomes the engines' readings allow.                        *)
(***************************************************************************)
_DEFAULT_ENGINE_ORDER == <<"easyocr", "tesseract">>
_DIGITS_ENGINE_FUNCS == {"easyocr", "tesseract"}

\* str.lower() on the engine names in use
Lower(name) ==
  CASE name = "EasyOCR" -> "easyocr"
    [] name = "TESSERACT" -> "tesseract"
    [] name = "Auto" -> "auto"
    [] OTHER -> name

_get_engine_order_CaseSensitive(preferred) ==
  LET pref == IF preferred = "" THEN "auto" ELSE preferred
  IN IF pref = "auto" THEN _DEFAULT_ENGINE_ORDER
     ELSE IF pref \notin _DIGITS_ENGINE_FUNCS THEN _DEFAULT_ENGINE_ORDER
     ELSE <<pref>> \o SelectSeq(_DEFAULT_ENGINE_ORDER, LAMBDA eng : eng # pref)

_get_engine_order(preferred) ==
  LET pref == Lower(IF preferred = "" THEN "auto" ELSE preferred)
  IN IF pref = "auto" THEN _DEFAULT_ENGINE_ORDER
     ELSE IF pref \notin _DIGITS_ENGINE_FUNCS THEN _DEFAULT_ENGINE_ORDER
     ELSE <<pref>> \o SelectSeq(_DEFAULT_ENGINE_ORDER, LAMBDA eng : eng # pref)

\* p.get("ocr_digits")
GetDigits(p) == IF Has(p, "ocr_digits") THEN p.ocr_digits ELSE <<>>

\* what an engine can read in the crop of a detection on page page_num:
\* nothing, the page's own number, or the folio "5"
\* (easyocr returns a list of words, tesseract a line of text)
EngineReadings(engine, page_num) ==
  IF engine = "easyocr"
  THEN {<<>>, <<PyStr(page_num)>>, << <<"5">> >>}
  ELSE {<<>>, PyStr(page_num) \o <<"\n">>, <<"5", "\n">>}

\* the body of the loop of ocr_digits_easyocr for one prediction
EasyOcrOne(p, words) ==
  LET text == Join(words)
      digits == OnlyDigits(text)
      q == Put(Put(Put(p, "ocr_words", words), "ocr_text", text), "ocr_digits", digits)
  IN IF digits # <<>> THEN Put(q, "ocr_digits_engine", "easyocr") ELSE q

\* the body of the loop of ocr_digits_tesseract for one prediction
TesseractOne(p, text) ==
  LET digits == OnlyDigits(text)
      q == Put(Put(Put(p, "ocr_words", IF text # <<>> THEN <<StripWs(text)>> ELSE <<>>),
                   "ocr_text", StripWs(text)), "ocr_digits", digits)
  IN IF digits # <<>> THEN Put(q, "ocr_digits_engine", "tesseract") ELSE q

\* one attempt of an engine on one crop: reader.readtext / image_to_string
\* returns a reading, or raises and the engine goes on with an empty reading
EngineAttempts(engine, page_num) ==
  {[raised |-> FALSE, out |-> r] : r \in EngineReadings(engine, page_num)}
  \cup {[raised |-> TRUE, out |-> <<>>]}

\* func(img, pending, ...): the predictions after the engine made the
\* attempts `reads` on the pending predictions
EngineApply(engine, preds, pending, reads) ==
  [i \in 1..Len(preds) |->
     IF i \notin pending THEN preds[i]
     ELSE IF engine = "easyocr" THEN EasyOcrOne(preds[i], reads[i].out)
     ELSE TesseractOne(preds[i], reads[i].out)]

\* _clip(val, lo, hi) = max(lo, min(hi, val)) for a float val and ints lo, hi
_clip(val, lo, hi) ==
  CHOOSE r \in {IF FLess(FromInt(lo), inner) THEN inner ELSE FromInt(lo) :
                inner \in {IF FLess(v, FromInt(hi)) THEN v ELSE FromInt(hi) :
                           v \in {val}}} : TRUE

\* pad_ratio: float = 0.15
pad_ratio == FDivSmall(FromInt(15), 100)

\* img[0:0, 0:0]
EmptyCrop == [h |-> 0, w |-> 0]

\* crop.size == 0
IsEmptyCrop(crop) == crop.h * crop.w = 0

\* the slice img[y1i:y2i, x1i:x2i], or img[0:0, 0:0]
Slice(x1i, y1i, x2i, y2i) ==
  IF x2i <= x1i \/ y2i <= y1i THEN EmptyCrop
  ELSE [h |-> y2i - y1i, w |-> x2i - x1i]

\* _crop_with_pad(img, box): the shape of the returned slice of img; every
\* intermediate value is evaluated once
_crop_with_pad(img, box) ==
  CHOOSE crop \in
    UNION {
      UNION {
        {Slice(FRoundDec(x1, 1), FRoundDec(y1, 1), FRoundDec(x2, 1), FRoundDec(y2, 1)) :
           x1 \in {_clip(FMinus(FMinus(cx, hw), px), 0, img.w - 1)},
           y1 \in {_clip(FMinus(FMinus(cy, hh), py), 0, img.h - 1)},
           x2 \in {_clip(FPlus(FPlus(cx, hw), px), 0, img.w - 1)},
           y2 \in {_clip(FPlus(FPlus(cy, hh), py), 0, img.h - 1)}} :
        px \in {FMul(bw, pad_ratio)}, py \in {FMul(bh, pad_ratio)},
        hw \in {FDivSmall(bw, 2)}, hh \in {FDivSmall(bh, 2)}} :
      cx \in {box.x}, cy \in {box.y}, bw \in {box.width}, bh \in {box.height}} : TRUE

\* the factor of cv2.resize for preprocess = "strong"
Scale == 3

\* _preprocess_crop(crop, mode="strong"): the shape of the returned image
_preprocess_crop(crop) ==
  IF IsEmptyCrop(crop) THEN crop
  ELSE [h |-> Scale * crop.h, w |-> Scale * crop.w]

\* the body of the loop of an engine for one prediction, the crop included
DigitsOne(engine, img, pred, attempt) ==
  LET crop == _preprocess_crop(_crop_with_pad(img, pred))
  IN IF IsEmptyCrop(crop)
     THEN Put(Put(Put(pred, "ocr_words", <<>>), "ocr_text", <<>>), "ocr_digits", <<>>)
     ELSE IF engine = "easyocr" THEN EasyOcrOne(pred, attempt.out)
     ELSE TesseractOne(pred, attempt.out)

\* ocr_digits_easyocr / ocr_digits_tesseract (img, predictions) when the
\* package of the engine is there
ocr_digits(engine, img, predictions, reads) ==
  [i \in 1..Len(predictions) |-> DigitsOne(engine, img, predictions[i], reads[i])]

\* the message of the RuntimeError an engine raises when its package is missing
EngineError(engine) ==
  IF engine = "easyocr" THEN "EasyOCR no esta instalado"
  ELSE "pytesseract no esta instalado"

\* one invocation of an OCR function, as a call counter sees it: the engine,
\* the predictions handed to it, whether the call raised, and its attempts
EngineCall(engine, pending, raised, reads) ==
  [engine |-> engine, pending |-> pending, raised |-> raised, reads |-> reads]

RECURSIVE EngineLoop_FullRerun(_, _, _, _, _, _)
EngineLoop_FullRerun(st, H, order, k, page_num, env) ==
  LET pending == {i \in H : GetDigits(st.preds[i]) = <<>>}
      engine == order[k]
  IN IF k > Len(order) \/ pending = {} THEN {st}
     ELSE IF ~env[engine]
          THEN EngineLoop_FullRerun(
                 [st EXCEPT !.errors = Append(@, [engine |-> engine,
                                                  error |-> EngineError(engine)]),
                            !.calls = Append(@, EngineCall(engine, H, TRUE, <<>>))],
                 H, order, k + 1, page_num, env)
          ELSE UNION {EngineLoop_FullRerun(
                        [st EXCEPT !.preds = EngineApply(engine, @, H, reads),
                                   !.calls = Append(@, EngineCall(engine, H, FALSE, reads))],
                        H, order, k + 1, page_num, env) :
                      reads \in [H -> EngineAttempts(engine, page_num)]}

RECURSIVE EngineLoop_StopsOnError(_, _, _, _, _, _)
EngineLoop_StopsOnError(st, H, order, k, page_num, env) ==
  LET pending == {i \in H : GetDigits(st.preds[i]) = <<>>}
      engine == order[k]
  IN IF k > Len(order) \/ pending = {} THEN {st}
     ELSE IF ~env[engine]
          THEN {[st EXCEPT !.errors = Append(@, [engine |-> engine,
                                                 error |-> EngineError(engine)]),
                           !.calls = Append(@, EngineCall(engine, pending, TRUE, <<>>))]}
          ELSE UNION {EngineLoop_StopsOnError(
                        [st EXCEPT !.preds = EngineApply(engine, @, pending, reads),
                                   !.calls = Append(@, EngineCall(engine, pending,
                                                                  FALSE, reads))],
                        H, order, k + 1, page_num, env) :
                      reads \in [pending -> EngineAttempts(engine, page_num)]}

\* the loop `for engine in engine_order` from the engine order[k] on;
\* st = [preds, errors, calls]
RECURSIVE EngineLoop(_, _, _, _, _, _)
EngineLoop(st, H, order, k, page_num, env) ==
  LET pending == {i \in H : GetDigits(st.preds[i]) = <<>>}
      engine == order[k]
  IN IF k > Len(order) \/ pending = {} THEN {st}
     ELSE IF ~env[engine]
          THEN EngineLoop([st EXCEPT
                             !.errors = Append(@, [engine |-> engine,
                                                   error |-> EngineError(engine)]),
                             !.calls = Append(@, EngineCall(engine, pending, TRUE, <<>>))],
                          H, order, k + 1, page_num, env)
          ELSE UNION {EngineLoop([st EXCEPT
                                    !.preds = EngineApply(engine, @, pending, reads),
                                    !.calls = Append(@, EngineCall(engine, pending,
                                                                   FALSE, reads))],
                                 H, order, k + 1, page_num, env) :
                      reads \in [pending -> EngineAttempts(engine, page_num)]}

_apply_digits_engines(preds, H, preferred_engine, page_num, env) ==
  LET start == [i \in 1..Len(preds) |->
                  IF i \in H /\ ~Has(preds[i], "ocr_digits")
                  THEN Put(preds[i], "ocr_digits", <<>>) ELSE preds[i]]
  IN EngineLoop([preds |-> start, errors |-> <<>>, calls |-> <<>>], H,
                _get_engine_order(preferred_engine), 1, page_num, env)

\* what keras-ocr can read inside the box of a detection: nothing, the
\* page's own number, or the letter S
KerasReadings(page_num) == {<<>>, <<PyStr(page_num)>>, << <<"S">> >>}

\* enrich_with_ocr on a pipeline that could be created
enrich_with_ocr(preds, H, words) ==
  [i \in 1..Len(preds) |->
     IF i \notin H THEN preds[i]
     ELSE Put(Put(preds[i], "ocr_words", words[i]), "ocr_text", Join(words[i]))]

_ensure_empty_ocr_fields(preds, H) ==
  [i \in 1..Len(preds) |->
     IF i \notin H THEN preds[i]
     ELSE LET p == IF Has(preds[i], "ocr_words") THEN preds[i]
                   ELSE Put(preds[i], "ocr_words", <<>>)
          IN IF Has(p, "ocr_text") THEN p ELSE Put(p, "ocr_text", <<>>)]

_strip_textual_ocr_fields_DropsEmptyDigits(preds, H) ==
  [i \in 1..Len(preds) |->
     IF i \notin H THEN preds[i]
     ELSE LET p == Del(Del(preds[i], "ocr_words"), "ocr_text")
          IN IF GetDigits(p) = <<>> THEN Del(p, "ocr_digits") ELSE p]

_strip_textual_ocr_fields_KeepsText(preds, H) ==
  [i \in 1..Len(preds) |->
     IF i \notin H THEN preds[i]
     ELSE LET p == Del(preds[i], "ocr_words")
          IN IF Has(p, "ocr_digits") THEN p ELSE Put(p, "ocr_digits", <<>>)]

_strip_textual_ocr_fields(preds, H) ==
  [i \in 1..Len(preds) |->
     IF i \notin H THEN preds[i]
     ELSE LET p == Del(Del(preds[i], "ocr_words"), "ocr_text")
          IN IF Has(p, "ocr_digits") THEN p ELSE Put(p, "ocr_digits", <<>>)]

(***************************************************************************)
(* One iteration of the page loop of process_pdf (api.py).                 *)
(***************************************************************************)
\* the text attached to a detection below min_confidence
OcrSkipped == "Confianza por debajo del umbral minimo"

Gate_Inclusive(preds, min_confidence) ==
  [i \in 1..Len(preds) |->
     IF preds[i].confidence <= min_confidence
     THEN Put(Put(preds[i], "low_confidence", TRUE), "ocr_skipped", OcrSkipped)
     ELSE preds[i]]

\* the confidence gate
Gate(preds, min_confidence) ==
  [i \in 1..Len(preds) |->
     IF preds[i].confidence < min_confidence
     THEN Put(Put(preds[i], "low_confidence", TRUE), "ocr_skipped", OcrSkipped)
     ELSE preds[i]]

\* the indices of high_conf_predictions
HighConf(preds) ==
  {i \in 1..Len(preds) : ~(Has(preds[i], "low_confidence") /\ preds[i].low_confidence)}

Fallback_OverwritesDigits(preds, H, page_num, env) ==
  IF \E i \in H : GetDigits(preds[i]) = <<>>
  THEN IF ~env.keras_ocr THEN {preds}
       ELSE {LET enriched == enrich_with_ocr(preds, H, words)
             IN [i \in 1..Len(preds) |->
                   IF i \in H
                   THEN Put(enriched[i], "ocr_digits",
                            _normalize_to_digits(enriched[i].ocr_text))
                   ELSE enriched[i]] :
             words \in [H -> KerasReadings(page_num)]}
  ELSE {preds}

\* the general-OCR fallback after the cascade
Fallback(preds, H, page_num, env) ==
  IF \E i \in H : GetDigits(preds[i]) = <<>>
  THEN IF ~env.keras_ocr THEN {preds}
       ELSE {LET enriched == enrich_with_ocr(preds, H, words)
             IN [i \in 1..Len(preds) |->
                   IF i \in H /\ GetDigits(enriched[i]) = <<>>
                   THEN Put(enriched[i], "ocr_digits",
                            _normalize_to_digits(enriched[i].ocr_text))
                   ELSE enriched[i]] :
             words \in [H -> KerasReadings(page_num)]}
  ELSE {preds}

\* the digits-only branch: [preds, extra, calls] with extra the extra_payload
\* and calls the OCR functions invoked, in order
DigitsOnlyOcr(preds, H, cfg, page_num, env) ==
  UNION {
    {[preds |-> _strip_textual_ocr_fields(fb, H),
      extra |-> IF st.errors # <<>> THEN [digits_engine_errors |-> st.errors]
                ELSE <<>>,
      calls |-> IF \E i \in H : GetDigits(st.preds[i]) = <<>>
                THEN Append(st.calls, EngineCall("keras_ocr", H, ~env.keras_ocr, <<>>))
                ELSE st.calls] :
     fb \in Fallback(st.preds, H, page_num, env)} :
    st \in _apply_digits_engines(preds, H, Lower(cfg.digits_engine), page_num, env)}

\* the general branch
GeneralOcr(preds, H, page_num, env) ==
  IF ~env.keras_ocr
  THEN {[preds |-> _ensure_empty_ocr_fields(preds, H),
         extra |-> [ocr_error |-> "keras-ocr no esta instalado"],
         calls |-> <<EngineCall("keras_ocr", H, TRUE, <<>>)>>]}
  ELSE {[preds |-> enrich_with_ocr(preds, H, words), extra |-> <<>>,
         calls |-> <<EngineCall("keras_ocr", H, FALSE, <<>>)>>] :
        words \in [H -> KerasReadings(page_num)]}

\* the OCR stage
OcrStage(preds, cfg, page_num, env) ==
  LET H == HighConf(preds)
  IN IF cfg.ocr /\ H # {}
     THEN IF cfg.digits_only THEN DigitsOnlyOcr(preds, H, cfg, page_num, env)
          ELSE GeneralOcr(preds, H, page_num, env)
     ELSE {[preds |-> preds, extra |-> <<>>, calls |-> <<>>]}

CompareStage_SkipsEmptyDigits(preds, cfg, page_num) ==
  [i \in 1..Len(preds) |->
     IF cfg.digits_only /\ GetDigits(preds[i]) # <<>>
     THEN Put(preds[i], "foliation_check",
              compare_foliation(preds[i].ocr_digits, page_num))
     ELSE preds[i]]

\* the foliation comparison
CompareStage(preds, cfg, page_num) ==
  [i \in 1..Len(preds) |->
     IF cfg.digits_only /\ Has(preds[i], "ocr_digits")
     THEN Put(preds[i], "foliation_check",
              compare_foliation(preds[i].ocr_digits, page_num))
     ELSE preds[i]]

\* what a page with the given predictions can produce: the page_result
\* dict, with the OCR functions invoked on the way
PageOutcomes(predictions, cfg, page_num, env) ==
  {[result |-> [page_number |-> page_num,
                predictions |-> CompareStage(o.preds, cfg, page_num)] @@ o.extra,
    calls |-> o.calls] :
   o \in OcrStage(Gate(predictions, cfg.min_confidence), cfg, page_num, env)}

\* the page_result dicts a page with the given predictions can produce
PageResults(predictions, cfg, page_num, env) ==
  {o.result : o \in PageOutcomes(predictions, cfg, page_num, env)}

PageError_Silent(page_num, message) ==
  [page_number |-> page_num, predictions |-> <<>>]

\* the page_result of a page whose processing raised
PageError(page_num, message) ==
  [page_number |-> page_num, error |-> message, predictions |-> <<>>]


(***************************************************************************)
(* The run summary of process_pdf (api.py).                                *)
(***************************************************************************)
\* all predictions of all page results, in order
RECURSIVE AllPredictions(_)
AllPredictions(rs) ==
  IF rs = <<>> THEN <<>> ELSE rs[1].predictions \o AllPredictions(Tail(rs))

\* p.get("foliation_check", {}).get("match", False)
IsExactMatch(p) == Has(p, "foliation_check") /\ p.foliation_check.match

\* sum(1 for p in preds if p.get("foliation_check", {}).get("match", False))
CountExactMatches(preds) == Len(SelectSeq(preds, IsExactMatch))

\* r["predictions"] is non-empty
HasDetections(r) == Len(r.predictions) > 0

\* no prediction of the page result is an exact match
LacksMatch(r) == CountExactMatches(r.predictions) = 0

\* a detection confidence, held in thousandths, as the float it is
ConfFloat(c) == FDivSmall(FromInt(c), 1000)

\* sum(all_confidences): left to right, starting from 0
RECURSIVE FSum(_)
FSum(confs) ==
  IF confs = <<>> THEN FZero
  ELSE FAdd(FSum(SubSeq(confs, 1, Len(confs) - 1)), ConfFloat(confs[Len(confs)]))

\* round(average_confidence, 3), in thousandths
AverageConfidence(rs) ==
  LET all_confidences == [i \in 1..Len(AllPredictions(rs)) |->
                            AllPredictions(rs)[i].confidence]
  IN IF all_confidences = <<>> THEN 0
     ELSE FRoundDec(FDivSmall(FSum(all_confidences), Len(all_confidences)), 1000)

Summary_PagesLackingMatch(rs, n_pages) ==
  [total_pages |-> n_pages,
   total_detections |-> Len(AllPredictions(rs)),
   pages_with_detections |-> Len(SelectSeq(rs, HasDetections)),
   exact_matches |-> CountExactMatches(AllPredictions(rs)),
   pages_without_match |-> Len(SelectSeq(rs, LacksMatch)),
   average_confidence |-> AverageConfidence(rs)]

Summary(rs, n_pages) ==
  LET exact_matches == CountExactMatches(AllPredictions(rs))
  IN [total_pages |-> n_pages,
      total_detections |-> Len(AllPredictions(rs)),
      pages_with_detections |-> Len(SelectSeq(rs, HasDetections)),
      exact_matches |-> exact_matches,
      pages_without_match |-> n_pages - exact_matches,
      average_confidence |-> AverageConfidence(rs)]

\* the image_dimensions attached to every page result
WithDimensions(rs, pgs) ==
  IF rs # <<>> /\ Len(pgs) > 0
  THEN [i \in 1..Len(rs) |->
          Put(rs[i], "image_dimensions",
              [width |-> pgs[1].shape.w, height |-> pgs[1].shape.h])]
  ELSE rs

(***************************************************************************)
(* State.                                                                  *)
(***************************************************************************)
VARIABLES
  cf_pc,      \* a call of compare_foliation: "call" before, "return" after
  cf_digits,  \* its argument ocr_digits
  cf_page,    \* its argument page_num
  cf_ret,     \* its return value
  pc,         \* position of a process_pdf request
  cfg,        \* its query parameters
  env,        \* which packages of the process can be imported
  pdf,        \* the uploaded document
  pages,      \* the list returned by pdf_to_images
  results,    \* the list of page results
  response,   \* the JSON response and its status
  model,      \* the global model of core.py
  MODEL_TYPE, \* the global MODEL_TYPE of core.py
  page_log,   \* the page processed last: what predict_array returned for
              \* it and the OCR functions invoked on it
  ca_pc,      \* a call of _apply_digits_engines: "call" before, "return" after
  ca_in,      \* its arguments, with the packages the process can import
  ca_out,     \* the predictions after it, its return value and the engine
              \* functions it invoked
  nz_pc,      \* calls of _normalize_to_digits: "call", "return", "again"
  nz_text,    \* the argument of the first call
  nz_ret,     \* the values returned so far
  cr_pc,      \* the calls on a list of boxes: "crop", "preprocess",
              \* "engine", "done"
  cr_in,      \* the image size, the engine, the boxes and what it would read
  cr_out,     \* the crop taken, the crop preprocessed and the predictions
              \* after the engine
  _easyocr_reader,  \* the global _easyocr_reader of core.py
  _ocr_pipeline,    \* the global _ocr_pipeline of core.py
  constructed,      \* the resources constructed in the process, in order
  used,             \* the calls that asked for a resource and what they got
  threads           \* the calls in progress in the process, one per thread

cf_vars == <<cf_pc, cf_digits, cf_page, cf_ret>>
run_vars == <<pc, cfg, env, pdf, pages, results, response, model, MODEL_TYPE,
              page_log>>
ca_vars == <<ca_pc, ca_in, ca_out>>
nz_vars == <<nz_pc, nz_text, nz_ret>>
cr_vars == <<cr_pc, cr_in, cr_out>>
pr_vars == <<_easyocr_reader, _ocr_pipeline, constructed, used, threads>>
aux_vars == <<nz_vars, cr_vars, pr_vars>>
vars == <<cf_pc, cf_digits, cf_page, cf_ret,
          pc, cfg, env, pdf, pages, results, response, model, MODEL_TYPE,
          page_log, ca_pc, ca_in, ca_out,
          nz_pc, nz_text, nz_ret, cr_pc, cr_in, cr_out,
          _easyocr_reader, _ocr_pipeline, constructed, used, threads>>

\* no call of compare_foliation is being observed
CompareIdle ==
  cf_pc = "idle" /\ cf_digits = <<>> /\ cf_page = 0 /\ cf_ret = None

\* no request is being served
RunIdle ==
  /\ pc = "idle" /\ cfg = <<>> /\ env = <<>> /\ pdf = <<>>
  /\ pages = <<>> /\ results = <<>> /\ response = None
  /\ model = "None" /\ MODEL_TYPE = "None" /\ page_log = None

\* no call of _apply_digits_engines is being observed
CascadeIdle ==
  ca_pc = "idle" /\ ca_in = <<>> /\ ca_out = None

\* no call of _normalize_to_digits is being observed
NormalizeIdle ==
  nz_pc = "idle" /\ nz_text = <<>> /\ nz_ret = <<>>

\* no call of a digit engine on a box is being observed
CropIdle ==
  cr_pc = "idle" /\ cr_in = <<>> /\ cr_out = None

\* the OCR resources of the process are not observed
ProcessIdle ==
  /\ _easyocr_reader = "None" /\ _ocr_pipeline = "None"
  /\ constructed = <<>> /\ used = <<>> /\ threads = <<>>

AuxIdle == NormalizeIdle /\ CropIdle /\ ProcessIdle

(***************************************************************************)
(* SpecCompare: one call of compare_foliation on any bounded input.        *)
(***************************************************************************)
Chars == {"0", "1", "2", "5", "9", "-", "_", " ", "x"}
InputStrings == UNION {[1..n -> Chars] : n \in 0..MaxLen}
PageNums == 0..MaxPageNum

InitCompare ==
  /\ cf_pc = "call"
  /\ cf_digits \in InputStrings
  /\ cf_page \in PageNums
  /\ cf_ret = None
  /\ RunIdle
  /\ CascadeIdle
  /\ AuxIdle

CallCompare ==
  /\ cf_pc = "call"
  /\ cf_ret' = compare_foliation(cf_digits, cf_page)
  /\ cf_pc' = "return"
  /\ UNCHANGED <<cf_digits, cf_page>>
  /\ UNCHANGED run_vars
  /\ UNCHANGED ca_vars
  /\ UNCHANGED aux_vars

NextCompare == CallCompare

SpecCompare == InitCompare /\ [][NextCompare]_vars

(***************************************************************************)
(* Spec: one process_pdf request, from pdf_to_images to the response.      *)
(***************************************************************************)
\* the detection confidences a page can get, in thousandths
ConfValues == {300, 500}

\* the query parameters: every combination of ocr and digits_only with the
\* default digits_engine, and the digits-only mode with tesseract preferred
Configs ==
  {[ocr |-> o, digits_only |-> d, digits_engine |-> "auto", min_confidence |-> 500] :
   o \in BOOLEAN, d \in BOOLEAN}
  \cup {[ocr |-> TRUE, digits_only |-> TRUE, digits_engine |-> "TESSERACT",
         min_confidence |-> 500]}

\* the processes: which of the detection model, easyocr, pytesseract and
\* keras-ocr can be loaded, and whether MODEL_PATH is set
AllEnvs ==
  {[model |-> m, MODEL_PATH |-> p, easyocr |-> a, tesseract |-> b, keras_ocr |-> c] :
   m \in BOOLEAN, p \in BOOLEAN, a \in BOOLEAN, b \in BOOLEAN, c \in BOOLEAN}

\* the processes that serve documents of several pages: one with easyocr as
\* its only OCR package, one with no OCR package, one without a model
Envs ==
  {e \in AllEnvs :
     /\ e.MODEL_PATH /\ ~e.tesseract /\ ~e.keras_ocr
     /\ e.model \/ ~e.easyocr}

Portrait == [h |-> 3508, w |-> 2480]
Landscape == [h |-> 2480, w |-> 3508]

\* the uploads: documents of 1..MaxPages portrait pages, a two-page document
\* whose second page is landscape, and bytes that are no PDF
Documents ==
  {[readable |-> TRUE, n |-> n, layout |-> "uniform"] : n \in 1..MaxPages}
  \cup {[readable |-> TRUE, n |-> 2, layout |-> "mixed"]}
  \cup {[readable |-> FALSE, n |-> 0, layout |-> "uniform"]}

\* pdf_to_images
pdf_to_images(doc) ==
  [k \in 1..doc.n |->
     [page_num |-> k,
      shape |-> IF doc.layout = "mixed" /\ k % 2 = 0 THEN Landscape ELSE Portrait]]

\* the lists of confidences predict_array can return for a page when the
\* earlier pages hold `seen` detections
Scenes(seen) ==
  UNION {[1..n -> ConfValues] : n \in 0..Min2(MaxDet, MaxDetections - seen)}

\* the prediction dicts predict_array builds
Predictions(page_num, confs) ==
  [i \in 1..Len(confs) |-> [confidence |-> confs[i], detection_id |-> <<page_num, i>>]]

Init ==
  /\ pc = "rasterize"
  /\ cfg \in Configs
  /\ env \in Envs
  /\ pdf \in Documents
  /\ pages = <<>>
  /\ results = <<>>
  /\ response = None
  /\ model = "None"
  /\ MODEL_TYPE = "None"
  /\ page_log = None
  /\ CompareIdle
  /\ CascadeIdle
  /\ AuxIdle

\* pdf_to_images succeeds, or raises and the request answers 500
Rasterize ==
  /\ pc = "rasterize"
  /\ IF pdf.readable
     THEN /\ pages' = pdf_to_images(pdf)
          /\ pc' = "loop"
          /\ UNCHANGED response
     ELSE /\ response' = [status |-> 500, error |-> "Error al convertir PDF"]
          /\ pc' = "done"
          /\ UNCHANGED pages
  /\ UNCHANGED <<cfg, env, pdf, results, model, MODEL_TYPE, page_log>>
  /\ UNCHANGED cf_vars
  /\ UNCHANGED ca_vars
  /\ UNCHANGED aux_vars

\* what is seen of one iteration: whether predict_array raised, the
\* predictions it returned and the OCR functions invoked afterwards
PageLog(page_num, raised, detected, calls) ==
  Some([page_num |-> page_num, raised |-> raised, detected |-> detected,
        calls |-> calls])

\* one iteration of `for page_num, img in pages`
ProcessPage ==
  /\ pc = "loop"
  /\ LET page_num == pages[Len(results) + 1].page_num
     IN /\ IF model = "None" /\ ~env.model
           THEN \* initialize_model raises inside predict_array
                /\ results' = Append(results, PageError(page_num, "No se pudo cargar el modelo"))
                /\ page_log' = PageLog(page_num, TRUE, <<>>, <<>>)
                /\ UNCHANGED <<model, MODEL_TYPE>>
           ELSE /\ model' = IF model # "None" THEN model
                            ELSE IF env.MODEL_PATH THEN "YOLO" ELSE "InferenceHTTPClient"
                /\ MODEL_TYPE' = IF model # "None" THEN MODEL_TYPE
                                 ELSE IF env.MODEL_PATH THEN "ultralytics" ELSE "roboflow"
                /\ \/ \* the inference raises
                      /\ results' = Append(results, PageError(page_num, "inference failed"))
                      /\ page_log' = PageLog(page_num, TRUE, <<>>, <<>>)
                   \/ \E confs \in Scenes(Len(AllPredictions(results))) :
                        \E o \in PageOutcomes(Predictions(page_num, confs),
                                              cfg, page_num, env) :
                          /\ results' = Append(results, o.result)
                          /\ page_log' = PageLog(page_num, FALSE,
                                                 Predictions(page_num, confs), o.calls)
        /\ pc' = IF Len(results) + 1 = Len(pages) THEN "summarize" ELSE "loop"
  /\ UNCHANGED <<cfg, env, pdf, pages, response>>
  /\ UNCHANGED cf_vars
  /\ UNCHANGED ca_vars
  /\ UNCHANGED aux_vars

Summarize_NeedsOnePage ==
  /\ pc = "summarize"
  /\ IF \E k \in 1..Len(results) : ~Has(results[k], "error")
     THEN /\ results' = WithDimensions(results, pages)
          /\ response' = [status |-> 200,
                          pages |-> WithDimensions(results, pages),
                          summary |-> Summary(results, Len(pages))]
     ELSE /\ response' = [status |-> 500, error |-> "no page could be processed"]
          /\ UNCHANGED results
  /\ pc' = "done"
  /\ UNCHANGED <<cfg, env, pdf, pages, model, MODEL_TYPE, page_log>>
  /\ UNCHANGED cf_vars
  /\ UNCHANGED ca_vars
  /\ UNCHANGED aux_vars

\* the summary, the image dimensions and the response
Summarize ==
  /\ pc = "summarize"
  /\ results' = WithDimensions(results, pages)
  /\ response' = [status |-> 200,
                  pages |-> WithDimensions(results, pages),
                  summary |-> Summary(results, Len(pages))]
  /\ pc' = "done"
  /\ UNCHANGED <<cfg, env, pdf, pages, model, MODEL_TYPE, page_log>>
  /\ UNCHANGED cf_vars
  /\ UNCHANGED ca_vars
  /\ UNCHANGED aux_vars

Next == Rasterize \/ ProcessPage \/ Summarize

Spec == Init /\ [][Next]_vars

\* the step of Summarize as pc shows it: under Spec no other step takes pc
\* from "summarize" to "done"
Respond == pc = "summarize" /\ pc' = "done"

\* the requests of Spec served by a process without easyocr: a model that
\* loads with every OCR package missing, or no model at all.  What an engine
\* reads decides the content of a page result, not whether the loop goes on.
InitLive == Init /\ ~env.easyocr

\* the page loop is a for loop over a finite list and every call in it is
\* synchronous: a request that can take a step takes it
LiveSpec ==
  /\ InitLive /\ [][Next]_vars
  /\ WF_vars(Rasterize) /\ WF_vars(ProcessPage) /\ WF_pc(Respond)

\* SpecPage: a request for a one-page document in any process
InitPage ==
  /\ pc = "rasterize"
  /\ cfg \in Configs
  /\ env \in AllEnvs
  /\ pdf = [readable |-> TRUE, n |-> 1, layout |-> "uniform"]
  /\ pages = <<>>
  /\ results = <<>>
  /\ response = None
  /\ model = "None"
  /\ MODEL_TYPE = "None"
  /\ page_log = None
  /\ CompareIdle
  /\ CascadeIdle
  /\ AuxIdle

SpecPage == InitPage /\ [][Next]_vars

(***************************************************************************)
(* SpecCascade: one call of _apply_digits_engines on any bounded list of   *)
(* predictions, with any preferred engine, in any process.                 *)
(***************************************************************************)
\* the values of preferred_engine: nothing, "auto", the known engines in
\* several spellings, and a name that is no digit engine
EngineNames ==
  {"", "auto", "Auto", "easyocr", "EasyOCR", "tesseract", "TESSERACT", "trocr"}

\* the processes, by the OCR packages they can import
CascadeEnvs ==
  {[easyocr |-> a, tesseract |-> b] : a \in BOOLEAN, b \in BOOLEAN}

\* the prediction lists handed to the cascade: each prediction is fresh or
\* already carries digits
CascadePredictions ==
  UNION {[1..n -> {[confidence |-> 500],
                   [confidence |-> 500, ocr_digits |-> <<"7">>]}] : n \in 1..MaxDet}

InitCascade ==
  /\ ca_pc = "call"
  /\ ca_in \in {[predictions |-> ps, preferred_engine |-> e, page_num |-> k, env |-> v] :
                 ps \in CascadePredictions, e \in EngineNames,
                 k \in 1..MaxPages, v \in CascadeEnvs}
  /\ ca_out = None
  /\ CompareIdle
  /\ RunIdle
  /\ AuxIdle

CallCascade ==
  /\ ca_pc = "call"
  /\ \E st \in _apply_digits_engines(ca_in.predictions, 1..Len(ca_in.predictions),
                                      ca_in.preferred_engine, ca_in.page_num,
                                      ca_in.env) :
       ca_out' = Some([engine_order |-> _get_engine_order(ca_in.preferred_engine),
                       predictions |-> st.preds,
                       errors |-> st.errors,
                       calls |-> st.calls])
  /\ ca_pc' = "return"
  /\ UNCHANGED ca_in
  /\ UNCHANGED cf_vars
  /\ UNCHANGED run_vars
  /\ UNCHANGED aux_vars

NextCascade == CallCascade

SpecCascade == InitCascade /\ [][NextCascade]_vars

(***************************************************************************)
(* SpecNormalize: _normalize_to_digits on any bounded string, then on its  *)
(* own result.                                                             *)
(***************************************************************************)
\* the characters of the texts: the keys of the confusion table, digits,
\* a letter outside the table, a blank and a digit of another script
NormalizeChars ==
  DOMAIN ConfusionTable \cup {"|", "!", "0", "7", "x", " "} \cup OtherDecimals

NormalizeTexts == UNION {[1..n -> NormalizeChars] : n \in 0..MaxLen}

InitNormalize ==
  /\ nz_pc = "call"
  /\ nz_text \in NormalizeTexts
  /\ nz_ret = <<>>
  /\ CompareIdle /\ RunIdle /\ CascadeIdle /\ CropIdle /\ ProcessIdle

\* _normalize_to_digits(text)
CallNormalize ==
  /\ nz_pc = "call"
  /\ nz_ret' = <<_normalize_to_digits(nz_text)>>
  /\ nz_pc' = "return"
  /\ UNCHANGED nz_text
  /\ UNCHANGED <<cf_vars, run_vars, ca_vars, cr_vars, pr_vars>>

\* _normalize_to_digits of the value just returned
CallNormalizeAgain ==
  /\ nz_pc = "return"
  /\ nz_ret' = Append(nz_ret, _normalize_to_digits(nz_ret[1]))
  /\ nz_pc' = "again"
  /\ UNCHANGED nz_text
  /\ UNCHANGED <<cf_vars, run_vars, ca_vars, cr_vars, pr_vars>>

NextNormalize == CallNormalize \/ CallNormalizeAgain

SpecNormalize == InitNormalize /\ [][NextNormalize]_vars

(***************************************************************************)
(* SpecCrop: _crop_with_pad on the first box of a list of predictions,     *)
(* _preprocess_crop on the crop, and a digit engine on the whole list.     *)
(***************************************************************************)
\* the page images
CropImages == {[h |-> 10, w |-> 10]}

\* n / 2 as a float
Halves(n) == FDivSmall(FromInt(n), 2)

\* centres and extents of the boxes, in half pixels: inside the image, across
\* its border, beside it within the padding and far from it
CentresX == {-22, 10, 21, 43, 80}
CentresY == {10, 60}
Widths == {0, 8, 40}
Heights == {8}

Boxes ==
  {[x |-> cx, y |-> cy, width |-> bw, height |-> bh] :
     cx \in CentresX, cy \in CentresY, bw \in Widths, bh \in Heights}

\* the boxes that follow the first in a list: one inside the image, one far
\* from it
NextBoxes ==
  {[x |-> 10, y |-> 10, width |-> 8, height |-> 8],
   [x |-> 80, y |-> 10, width |-> 8, height |-> 8]}

\* the lists of boxes: one box, or a box and one that follows it
BoxLists ==
  {<<b>> : b \in Boxes} \cup {<<b, c>> : b \in Boxes, c \in NextBoxes}

\* the prediction dict of a box given in half pixels
Prediction(b) ==
  [x |-> Halves(b.x), y |-> Halves(b.y),
   width |-> Halves(b.width), height |-> Halves(b.height)]

InitCrop ==
  /\ cr_pc = "crop"
  /\ \E img \in CropImages, engine \in _DIGITS_ENGINE_FUNCS, boxes \in BoxLists :
       \E reads \in [1..Len(boxes) -> EngineAttempts(engine, 1)] :
         cr_in = <<[img |-> img, engine |-> engine, boxes |-> boxes, reads |-> reads]>>
  /\ cr_out = None
  /\ CompareIdle /\ RunIdle /\ CascadeIdle /\ NormalizeIdle /\ ProcessIdle

\* crop = _crop_with_pad(img, pred, pad_ratio=pad_ratio)
CallCropWithPad ==
  /\ cr_pc = "crop"
  /\ cr_out' = Some([crop |-> _crop_with_pad(cr_in[1].img, Prediction(cr_in[1].boxes[1]))])
  /\ cr_pc' = "preprocess"
  /\ UNCHANGED cr_in
  /\ UNCHANGED <<cf_vars, run_vars, ca_vars, nz_vars, pr_vars>>

\* crop = _preprocess_crop(crop, mode=preprocess)
CallPreprocessCrop ==
  /\ cr_pc = "preprocess"
  /\ cr_out' = Some([crop |-> cr_out[1].crop,
                     preprocessed |-> _preprocess_crop(cr_out[1].crop)])
  /\ cr_pc' = "engine"
  /\ UNCHANGED cr_in
  /\ UNCHANGED <<cf_vars, run_vars, ca_vars, nz_vars, pr_vars>>

\* ocr_digits_easyocr(img, predictions) or ocr_digits_tesseract(img, predictions)
CallDigitEngine ==
  /\ cr_pc = "engine"
  /\ cr_out' = Some([crop |-> cr_out[1].crop,
                     preprocessed |-> cr_out[1].preprocessed,
                     predictions |->
                       ocr_digits(cr_in[1].engine, cr_in[1].img,
                                  [i \in 1..Len(cr_in[1].boxes) |->
                                     Prediction(cr_in[1].boxes[i])],
                                  cr_in[1].reads)])
  /\ cr_pc' = "done"
  /\ UNCHANGED cr_in
  /\ UNCHANGED <<cf_vars, run_vars, ca_vars, nz_vars, pr_vars>>

NextCrop == CallCropWithPad \/ CallPreprocessCrop \/ CallDigitEngine

SpecCrop == InitCrop /\ [][NextCrop]_vars

(***************************************************************************)
(* SpecProcess: the calls of one process, one after the other, that ask    *)
(* for the detection model, the EasyOCR reader or the keras-ocr pipeline.  *)
(* A construction succeeds or raises; an object is named by its class and  *)
(* by its rank among the objects constructed in the process.               *)
(***************************************************************************)
IsNone_Always(v) == TRUE

\* `model is None`, `_easyocr_reader is None`, `_ocr_pipeline is None`
IsNone(v) == v = "None"

\* the object a constructor returns
NewInstance(class) == class \o "#" \o ToString(Len(constructed) + 1)

\* the class of the detection model and the MODEL_TYPE set with it
ModelClass(e) == IF e.MODEL_PATH THEN "YOLO" ELSE "InferenceHTTPClient"
ModelType(e) == IF e.MODEL_PATH THEN "ultralytics" ELSE "roboflow"

Built(resource, instance) == [resource |-> resource, instance |-> instance]
Use(resource, instance, raised) ==
  [resource |-> resource, instance |-> instance, raised |-> raised]

\* the processes: MODEL_PATH set or not
ProcessEnvs == {[MODEL_PATH |-> p] : p \in BOOLEAN}

InitProcess ==
  /\ pc = "idle" /\ cfg = <<>> /\ env \in ProcessEnvs /\ pdf = <<>>
  /\ pages = <<>> /\ results = <<>> /\ response = None
  /\ model = "None" /\ MODEL_TYPE = "None" /\ page_log = None
  /\ CompareIdle /\ CascadeIdle /\ NormalizeIdle /\ CropIdle /\ ProcessIdle

\* predict_array: `if model is None: initialize_model()`, then the inference
CallPredictArray ==
  /\ Len(used) < MaxCalls
  /\ IF IsNone(model)
     THEN \/ /\ model' = NewInstance(ModelClass(env))
             /\ MODEL_TYPE' = ModelType(env)
             /\ constructed' = Append(constructed, Built("model", model'))
             /\ used' = Append(used, Use("model", model', FALSE))
          \/ \* YOLO(MODEL_PATH) or InferenceHTTPClient(...) raises
             /\ used' = Append(used, Use("model", "None", TRUE))
             /\ UNCHANGED <<model, MODEL_TYPE, constructed>>
     ELSE /\ used' = Append(used, Use("model", model, FALSE))
          /\ UNCHANGED <<model, MODEL_TYPE, constructed>>
  /\ UNCHANGED <<_easyocr_reader, _ocr_pipeline, threads>>
  /\ UNCHANGED <<pc, cfg, env, pdf, pages, results, response, page_log>>
  /\ UNCHANGED <<cf_vars, ca_vars, nz_vars, cr_vars>>

\* reader = _get_easyocr_reader()
CallGetEasyocrReader ==
  /\ Len(used) < MaxCalls
  /\ IF IsNone(_easyocr_reader)
     THEN \/ /\ _easyocr_reader' = NewInstance("Reader")
             /\ constructed' = Append(constructed, Built("easyocr", _easyocr_reader'))
             /\ used' = Append(used, Use("easyocr", _easyocr_reader', FALSE))
          \/ \* import easyocr or easyocr.Reader(...) raises
             /\ used' = Append(used, Use("easyocr", "None", TRUE))
             /\ UNCHANGED <<_easyocr_reader, constructed>>
     ELSE /\ used' = Append(used, Use("easyocr", _easyocr_reader, FALSE))
          /\ UNCHANGED <<_easyocr_reader, constructed>>
  /\ UNCHANGED <<_ocr_pipeline, threads>>
  /\ UNCHANGED <<run_vars, cf_vars, ca_vars, nz_vars, cr_vars>>

\* pipeline = _get_ocr_pipeline()
CallGetOcrPipeline ==
  /\ Len(used) < MaxCalls
  /\ IF IsNone(_ocr_pipeline)
     THEN \/ /\ _ocr_pipeline' = NewInstance("Pipeline")
             /\ constructed' = Append(constructed, Built("keras_ocr", _ocr_pipeline'))
             /\ used' = Append(used, Use("keras_ocr", _ocr_pipeline', FALSE))
          \/ \* import keras_ocr or keras_ocr.pipeline.Pipeline() raises
             /\ used' = Append(used, Use("keras_ocr", "None", TRUE))
             /\ UNCHANGED <<_ocr_pipeline, constructed>>
     ELSE /\ used' = Append(used, Use("keras_ocr", _ocr_pipeline, FALSE))
          /\ UNCHANGED <<_ocr_pipeline, constructed>>
  /\ UNCHANGED <<_easyocr_reader, threads>>
  /\ UNCHANGED <<run_vars, cf_vars, ca_vars, nz_vars, cr_vars>>

NextProcess == CallPredictArray \/ CallGetEasyocrReader \/ CallGetOcrPipeline

SpecProcess == InitProcess /\ [][NextProcess]_vars

(***************************************************************************)
(* SpecRace: two threads of one process that call predict_array for the    *)
(* first time, interleaved statement by statement.                         *)
(***************************************************************************)
Threads == {1, 2}

\* a thread about to enter predict_array
Entering == [pc |-> "check", tmp |-> "None", branch |-> "None", obj |-> "None"]

InitRace ==
  /\ pc = "idle" /\ cfg = <<>> /\ env \in ProcessEnvs /\ pdf = <<>>
  /\ pages = <<>> /\ results = <<>> /\ response = None
  /\ model = "None" /\ MODEL_TYPE = "None" /\ page_log = None
  /\ _easyocr_reader = "None" /\ _ocr_pipeline = "None"
  /\ constructed = <<>> /\ used = <<>>
  /\ threads = [t \in Threads |-> Entering]
  /\ CompareIdle /\ CascadeIdle /\ NormalizeIdle /\ CropIdle

RaceFrame ==
  /\ UNCHANGED <<_easyocr_reader, _ocr_pipeline, used>>
  /\ UNCHANGED <<pc, cfg, env, pdf, pages, results, response, page_log>>
  /\ UNCHANGED <<cf_vars, ca_vars, nz_vars, cr_vars>>

\* predict_array: `if model is None:`
PredictArrayCheck(t) ==
  /\ threads[t].pc = "check"
  /\ threads' = [threads EXCEPT ![t].pc = IF IsNone(model) THEN "construct"
                                          ELSE "dispatch"]
  /\ UNCHANGED <<model, MODEL_TYPE, constructed>>
  /\ RaceFrame

\* initialize_model: YOLO(MODEL_PATH) or InferenceHTTPClient(...) returns an
\* object, or raises and predict_array raises RuntimeError
InitializeModelConstruct(t) ==
  /\ threads[t].pc = "construct"
  /\ \/ /\ threads' = [threads EXCEPT ![t].pc = "set_model",
                                       ![t].tmp = NewInstance(ModelClass(env))]
        /\ constructed' = Append(constructed,
                                 Built("model", NewInstance(ModelClass(env))))
     \/ /\ threads' = [threads EXCEPT ![t].pc = "raised"]
        /\ UNCHANGED constructed
  /\ UNCHANGED <<model, MODEL_TYPE>>
  /\ RaceFrame

\* initialize_model: `model = ...`
InitializeModelSetModel(t) ==
  /\ threads[t].pc = "set_model"
  /\ model' = threads[t].tmp
  /\ threads' = [threads EXCEPT ![t].pc = "set_type"]
  /\ UNCHANGED <<MODEL_TYPE, constructed>>
  /\ RaceFrame

\* initialize_model: `MODEL_TYPE = ...` and `return True`
InitializeModelSetType(t) ==
  /\ threads[t].pc = "set_type"
  /\ MODEL_TYPE' = ModelType(env)
  /\ threads' = [threads EXCEPT ![t].pc = "dispatch"]
  /\ UNCHANGED <<model, constructed>>
  /\ RaceFrame

\* predict_array: `if MODEL_TYPE == "ultralytics": ... else: ...`
PredictArrayDispatch(t) ==
  /\ threads[t].pc = "dispatch"
  /\ threads' = [threads EXCEPT ![t].pc = "infer",
                                ![t].branch = IF MODEL_TYPE = "ultralytics"
                                              THEN "ultralytics" ELSE "roboflow"]
  /\ UNCHANGED <<model, MODEL_TYPE, constructed>>
  /\ RaceFrame

\* predict_array: `model.predict(...)` or `model.infer(...)` on the global
PredictArrayInfer(t) ==
  /\ threads[t].pc = "infer"
  /\ threads' = [threads EXCEPT ![t].pc = "done", ![t].obj = model]
  /\ UNCHANGED <<model, MODEL_TYPE, constructed>>
  /\ RaceFrame

NextRace ==
  \E t \in Threads :
    \/ PredictArrayCheck(t)
    \/ InitializeModelConstruct(t)
    \/ InitializeModelSetModel(t)
    \/ InitializeModelSetType(t)
    \/ PredictArrayDispatch(t)
    \/ PredictArrayInfer(t)

SpecRace == InitRace /\ [][NextRace]_vars

(***************************************************************************)
(* Properties of compare_foliation, checked under SpecCompare.             *)
(***************************************************************************)
Returned == cf_pc = "return"
Parsable == PyInt(cf_digits).ok
\* |d - n| for the integer d that cf_digits parses to
ExpectedDiff ==
  LET d == PyInt(cf_digits).val
  IN IF d >= cf_page THEN d - cf_page ELSE cf_page - d

\* C1: for a digit string that parses to d and a page number n the call
\* returns diff = |d - n| and the verdict of the scoring table: diff 0 ->
\* confidence 1.00, 100 percent, match; diff 1 -> 0.80, 80, no match;
\* diff 2 or 3 -> 0.50, 50, no match; match holds exactly when diff = 0.
C1_ScoringTable ==
  (Returned /\ Parsable) =>
    /\ "exception" \notin DOMAIN cf_ret
    /\ cf_ret.diff = Some(ExpectedDiff)
    /\ cf_ret.match = (ExpectedDiff = 0)
    /\ ExpectedDiff = 0 =>
         cf_ret.confidence = 100 /\ cf_ret.match_percentage = 100 /\ cf_ret.match
    /\ ExpectedDiff = 1 =>
         cf_ret.confidence = 80 /\ cf_ret.match_percentage = 80 /\ ~cf_ret.match
    /\ ExpectedDiff \in {2, 3} =>
         cf_ret.confidence = 50 /\ cf_ret.match_percentage = 50 /\ ~cf_ret.match

C1_Witness ==
  Returned /\ cf_digits = <<"5">> /\ cf_page = 2 /\ cf_ret.diff = Some(3)

\* C2: the confidence never increases with diff: any other parsable input
\* against the same page number with a larger diff has a confidence that is
\* no larger, the step from diff 3 to diff 4 included.
C2_MonotoneConfidence ==
  (Returned /\ Parsable) =>
    \A other \in InputStrings :
      LET r == compare_foliation(other, cf_page)
      IN (PyInt(other).ok /\ cf_ret.diff[1] < r.diff[1]) =>
           cf_ret.confidence >= r.confidence

\* C3: for diff > 3 the call returns no match, confidence max(0, 1 - diff/10)
\* and a match_percentage that is one hundred times that confidence.
C3_PercentageIsConfidence ==
  (Returned /\ Parsable /\ ExpectedDiff > 3) =>
    /\ ~cf_ret.match
    /\ cf_ret.confidence = Max2(0, 100 - 10 * ExpectedDiff)
    /\ cf_ret.match_percentage = cf_ret.confidence

C5_OwnNumberMatches ==
  (Returned /\ cf_page >= 0 /\ cf_digits = PyStr(cf_page)) =>
    cf_ret.match /\ cf_ret.confidence = 100

C5_Witness ==
  Returned /\ cf_page = 0 /\ cf_digits = PyStr(cf_page) /\ cf_ret.match

\* C6: str(n-1) and str(n+1) compared with n get the same confidence and the
\* same match_percentage.
C6_SymmetricNeighbours ==
  (Returned /\ cf_digits = PyStr(cf_page - 1)) =>
    LET above == compare_foliation(PyStr(cf_page + 1), cf_page)
    IN /\ cf_ret.confidence = above.confidence
       /\ cf_ret.match_percentage = above.match_percentage

C6_Witness ==
  Returned /\ cf_page = 0 /\ cf_digits = <<"-", "1">> /\ cf_ret.confidence = 80

\* C7: every returned check has confidence in [0, 1], match_percentage in
\* 0..100 and a diff that is absent or a non-negative integer, absent
\* exactly when the digits are empty or unparsable.
C7_CheckRanges ==
  Returned =>
    /\ "exception" \notin DOMAIN cf_ret
    /\ cf_ret.confidence \in 0..100
    /\ cf_ret.match_percentage \in 0..100
    /\ cf_ret.diff = None \/ (Len(cf_ret.diff) = 1 /\ cf_ret.diff[1] >= 0)
    /\ (cf_ret.diff = None) <=> (cf_digits = <<>> \/ ~Parsable)

C7_Witness ==
  Returned /\ cf_ret.diff # None /\ cf_ret.diff[1] > 10 /\ cf_ret.confidence = 0

(***************************************************************************)
(* Properties of the run summary, checked under Spec.                      *)
(***************************************************************************)
Answered == pc = "done" /\ response.status = 200

\* the detections of the response, as <<page index, index on the page>>
Detections ==
  UNION {{<<i, j>> : j \in 1..Len(response.pages[i].predictions)} :
         i \in 1..Len(response.pages)}
Detection(d) == response.pages[d[1]].predictions[d[2]]
Checked == {d \in Detections : "foliation_check" \in DOMAIN Detection(d)}

\* C8: total_pages is the number of rasterized pages, total_detections the
\* number of detections of all pages, pages_with_detections the number of
\* pages with at least one, exact_matches the number of detections whose
\* foliation check matches, pages_without_match = total_pages - exact_matches.
C8_SummaryCounts ==
  Answered =>
    LET sm == response.summary
    IN /\ sm.total_pages = pdf.n
       /\ sm.total_pages = Len(response.pages)
       /\ sm.total_detections = Cardinality(Detections)
       /\ sm.pages_with_detections =
            Cardinality({i \in 1..Len(response.pages) :
                           response.pages[i].predictions # <<>>})
       /\ sm.exact_matches =
            Cardinality({d \in Checked : Detection(d).foliation_check.match})
       /\ sm.pages_without_match = sm.total_pages - sm.exact_matches

C8_Witness ==
  /\ Answered
  /\ response.summary.total_pages = 3
  /\ response.summary.total_detections = 3
  /\ response.summary.pages_with_detections = 2
  /\ response.summary.exact_matches = 2
  /\ response.summary.pages_without_match = 1

\* the sum of the foliation-check confidences, in thousandths, of a set of
\* detections
RECURSIVE CheckConfidenceSum(_)
CheckConfidenceSum(ds) ==
  IF ds = {} THEN 0
  ELSE LET d == CHOOSE x \in ds : TRUE
       IN 10 * Detection(d).foliation_check.confidence + CheckConfidenceSum(ds \ {d})

\* num / den rounded to the nearest integer, ties to even
RoundedQuotient(num, den) ==
  LET q == num \div den
      r == num % den
  IN IF 2 * r > den \/ (2 * r = den /\ q % 2 = 1) THEN q + 1 ELSE q

\* C9: average_confidence is the mean of the foliation-check confidence over
\* the detections that carry a foliation check, rounded to 3 decimals, and
\* 0.0 when no detection carries one.
C9_AverageOfCheckConfidence ==
  Answered =>
    response.summary.average_confidence =
      IF Checked = {} THEN 0
      ELSE RoundedQuotient(CheckConfidenceSum(Checked), Cardinality(Checked))

\* C10: a 3-page document with one trusted detection per page reading "1",
\* "2" and "5": pages 1 and 2 match (diff 0, confidence 1.0), page 3 has
\* diff 2, confidence 0.5 and no match, and the summary has total_pages 3,
\* exact_matches 2, pages_without_match 1 and average_confidence 0.833.
C10_Scenario ==
  /\ Answered
  /\ Len(response.pages) = 3
  /\ \A i \in 1..3 :
       /\ "predictions" \in DOMAIN response.pages[i]
       /\ Len(response.pages[i].predictions) = 1
       /\ "low_confidence" \notin DOMAIN response.pages[i].predictions[1]
       /\ "ocr_digits" \in DOMAIN response.pages[i].predictions[1]
       /\ "foliation_check" \in DOMAIN response.pages[i].predictions[1]
  /\ response.pages[1].predictions[1].ocr_digits = <<"1">>
  /\ response.pages[2].predictions[1].ocr_digits = <<"2">>
  /\ response.pages[3].predictions[1].ocr_digits = <<"5">>

C10_EndToEnd ==
  C10_Scenario =>
    /\ \A i \in 1..2 :
         response.pages[i].predictions[1].foliation_check =
           [match |-> TRUE, diff |-> Some(0), confidence |-> 100, match_percentage |-> 100]
    /\ response.pages[3].predictions[1].foliation_check.match = FALSE
    /\ response.pages[3].predictions[1].foliation_check.diff = Some(2)
    /\ response.pages[3].predictions[1].foliation_check.confidence = 50
    /\ response.summary.total_pages = 3
    /\ response.summary.exact_matches = 2
    /\ response.summary.pages_without_match = 1
    /\ response.summary.average_confidence = 833

(***************************************************************************)
(* Properties of one iteration of the page loop.                           *)
(***************************************************************************)
\* the page processed last went through without an exception
PageDone == page_log # None /\ ~page_log[1].raised
\* its page_result
LastResult == results[page_log[1].page_num]
\* the detection carries the low-confidence flag and the reason string
Flagged(p) ==
  /\ Has(p, "low_confidence") /\ p.low_confidence
  /\ Has(p, "ocr_skipped") /\ p.ocr_skipped = OcrSkipped
\* the detection carries neither
Unflagged(p) == ~Has(p, "low_confidence") /\ ~Has(p, "ocr_skipped")

\* C11: on a page that was processed, the output list holds exactly the
\* detections predict_array returned, in order; a detection carries the
\* low_confidence flag and the reason string if and only if its confidence is
\* strictly below min_confidence; and no OCR function (easyocr, tesseract,
\* keras-ocr) was handed a flagged detection.
C11_ConfidenceGate ==
  PageDone =>
    LET detected == page_log[1].detected
        out == LastResult.predictions
    IN /\ Len(out) = Len(detected)
       /\ \A i \in 1..Len(detected) :
            /\ out[i].detection_id = detected[i].detection_id
            /\ out[i].confidence = detected[i].confidence
            /\ IF detected[i].confidence < cfg.min_confidence
               THEN Flagged(out[i]) ELSE Unflagged(out[i])
       /\ \A c \in 1..Len(page_log[1].calls) :
            \A i \in page_log[1].calls[c].pending :
              detected[i].confidence >= cfg.min_confidence

\* a page with a detection at min_confidence and one below it, where an OCR
\* function ran and only on the first
C11_Witness ==
  /\ PageDone
  /\ Len(page_log[1].detected) = 2
  /\ page_log[1].detected[1].confidence = cfg.min_confidence
  /\ page_log[1].detected[2].confidence < cfg.min_confidence
  /\ Len(page_log[1].calls) > 0
  /\ page_log[1].calls[1].pending = {1}
  /\ Flagged(LastResult.predictions[2])
  /\ Unflagged(LastResult.predictions[1])

\* C12: an iteration of the page loop whose processing raises appends a
\* page_result with the page's number, an error field and an empty
\* prediction list; the loop goes on to the next page if there is one; and
\* the result of any page that does not raise is one of the results that
\* page's detections produce on their own, whatever happened to the pages
\* before it.
C12_PageFailureIsolation ==
  [][pc = "loop" =>
       LET k == Len(results) + 1
       IN /\ Len(results') = k
          /\ SubSeq(results', 1, k - 1) = results
          /\ page_log' # None /\ page_log'[1].page_num = k
          /\ results'[k].page_number = k
          /\ pc' = (IF k < Len(pages) THEN "loop" ELSE "summarize")
          /\ IF page_log'[1].raised
             THEN /\ Has(results'[k], "error")
                  /\ results'[k].predictions = <<>>
             ELSE /\ ~Has(results'[k], "error")
                  /\ results'[k] \in PageResults(page_log'[1].detected, cfg, k, env)]_vars

\* the first page raised and the second was processed, its detection read
\* and compared
C12_Witness ==
  /\ Len(results) >= 2
  /\ Has(results[1], "error") /\ results[1].predictions = <<>>
  /\ ~Has(results[2], "error")
  /\ Len(results[2].predictions) > 0
  /\ Has(results[2].predictions[1], "foliation_check")
  /\ results[2].predictions[1].foliation_check.match

(***************************************************************************)
(* Properties of a whole request.                                          *)
(***************************************************************************)
\* the request answered 200 with n page results numbered 1..n and a summary
Complete(n) ==
  /\ pc = "done"
  /\ response.status = 200
  /\ Len(response.pages) = n
  /\ \A k \in 1..n : response.pages[k].page_number = k
  /\ Has(response, "summary")
  /\ response.summary.total_pages = n

\* C13: once pdf_to_images has returned N pages, the request comes to its
\* end with a 200 response that holds exactly N page results, numbered 1..N
\* in ascending order, and one summary, whichever pages failed.
C13_RunAlwaysCompletes ==
  \A n \in 1..MaxPages : (pc = "loop" /\ Len(pages) = n) ~> Complete(n)

\* a request whose pages all failed and that was answered all the same
C13_Witness ==
  /\ Complete(MaxPages)
  /\ \A k \in 1..MaxPages : Has(response.pages[k], "error")

\* C14: when the detection model cannot be constructed (initialize_model
\* raises), the request records no page result and its response carries
\* neither page results nor a summary.
C14_ModelFailureIsFatal ==
  ~env.model =>
    /\ results = <<>>
    /\ pc = "done" => ~Has(response, "pages") /\ ~Has(response, "summary")

(***************************************************************************)
(* Properties of the digit-engine cascade, checked under SpecCascade.      *)
(***************************************************************************)
CascadeReturned == ca_pc = "return"

\* C15: a preferred engine that names a known digit engine, in any
\* spelling, comes first and the other known engine follows; "auto", no
\* value and an unknown name give the default order easyocr, tesseract; the
\* order is always a permutation of the known engines.
C15_EngineOrder ==
  CascadeReturned =>
    LET order == ca_out[1].engine_order
        pref == ca_in.preferred_engine
    IN /\ Len(order) = 2
       /\ {order[1], order[2]} = {"easyocr", "tesseract"}
       /\ pref \in {"tesseract", "TESSERACT"} => order = <<"tesseract", "easyocr">>
       /\ pref \in {"easyocr", "EasyOCR"} => order = <<"easyocr", "tesseract">>
       /\ pref \in {"", "auto", "Auto", "trocr"} => order = <<"easyocr", "tesseract">>

\* tesseract preferred in capitals, and tried first
C15_Witness ==
  /\ CascadeReturned
  /\ ca_in.preferred_engine = "TESSERACT"
  /\ ca_out[1].engine_order = <<"tesseract", "easyocr">>
  /\ Len(ca_out[1].calls) > 0
  /\ ca_out[1].calls[1].engine = "tesseract"

\* the digits the call c of an engine produced for prediction i
DigitsRead(c, i) ==
  IF c.raised \/ i \notin c.pending THEN <<>>
  ELSE IF c.engine = "easyocr" THEN OnlyDigits(Join(c.reads[i].out))
  ELSE OnlyDigits(c.reads[i].out)

\* the predictions without digits when the j-th call was made: those that
\* came without digits and for which no earlier call produced any
StillEmpty(j) ==
  {i \in 1..Len(ca_in.predictions) :
     /\ GetDigits(ca_in.predictions[i]) = <<>>
     /\ \A h \in 1..(j - 1) : DigitsRead(ca_out[1].calls[h], i) = <<>>}

\* the position of an engine in the engine order
OrderIndex(engine) ==
  CHOOSE k \in 1..Len(ca_out[1].engine_order) : ca_out[1].engine_order[k] = engine

\* C16: every engine call is handed exactly the predictions whose digits
\* are still empty after the earlier calls, and at least one; engines are
\* called in the engine order, each at most once; a prediction that has
\* digits is handed to no later engine; and when the first call yields
\* digits for every prediction no second call is made.
C16_WorkNarrowing ==
  CascadeReturned =>
    LET calls == ca_out[1].calls
    IN /\ \A j \in 1..Len(calls) :
            /\ calls[j].pending = StillEmpty(j)
            /\ calls[j].pending # {}
            /\ \A h \in 1..(j - 1) :
                 OrderIndex(calls[h].engine) < OrderIndex(calls[j].engine)
       /\ (Len(calls) >= 1 /\ StillEmpty(2) = {}) => Len(calls) = 1

\* two fresh predictions: easyocr read digits for the first only, and
\* tesseract was handed the second alone
C16_Witness ==
  /\ CascadeReturned
  /\ Len(ca_in.predictions) = 2
  /\ Len(ca_out[1].calls) = 2
  /\ ca_out[1].calls[1].engine = "easyocr"
  /\ ca_out[1].calls[1].pending = {1, 2}
  /\ DigitsRead(ca_out[1].calls[1], 1) # <<>>
  /\ ca_out[1].calls[2].engine = "tesseract"
  /\ ca_out[1].calls[2].pending = {2}
  /\ DigitsRead(ca_out[1].calls[2], 2) # <<>>

\* the calls that raised, as the entries they leave in the error list
RECURSIVE RaisedEntries(_)
RaisedEntries(calls) ==
  IF calls = <<>> THEN <<>>
  ELSE IF calls[1].raised
       THEN <<[engine |-> calls[1].engine, error |-> EngineError(calls[1].engine)]>>
            \o RaisedEntries(Tail(calls))
       ELSE RaisedEntries(Tail(calls))

\* C17: each engine call that raises leaves exactly one entry
\* "{engine}: {error}" in the returned list, in call order, and nothing
\* else does; after a call that raised, the next engine of the order, if
\* any, is called on the same pending predictions; the call of
\* _apply_digits_engines itself returns.
C17_EngineFailureRecorded ==
  CascadeReturned =>
    LET calls == ca_out[1].calls
        order == ca_out[1].engine_order
    IN /\ ca_out[1].errors = RaisedEntries(calls)
       /\ \A j \in 1..Len(calls) :
            (calls[j].raised /\ OrderIndex(calls[j].engine) < Len(order)) =>
              /\ Len(calls) > j
              /\ calls[j + 1].engine = order[OrderIndex(calls[j].engine) + 1]
              /\ calls[j + 1].pending = calls[j].pending

\* easyocr cannot be imported: one entry for it, and tesseract read the
\* digits of the pending prediction
C17_Witness ==
  /\ CascadeReturned
  /\ Len(ca_out[1].errors) = 1
  /\ ca_out[1].errors[1].engine = "easyocr"
  /\ Len(ca_out[1].calls) = 2
  /\ ca_out[1].calls[1].raised
  /\ ca_out[1].calls[2].engine = "tesseract"
  /\ ~ca_out[1].calls[2].raised
  /\ \E i \in ca_out[1].calls[2].pending : DigitsRead(ca_out[1].calls[2], i) # <<>>

\* the call c threw on every prediction handed to it
ThrewOnAll(c) ==
  c.raised \/ \A i \in c.pending : c.reads[i].raised

\* C18: when the engine tried first throws on every prediction, the
\* returned error list holds exactly one entry naming that engine, and
\* every prediction has its ocr_digits field afterwards.
C18_OneEntryForThrowingEngine ==
  (CascadeReturned /\ Len(ca_out[1].calls) > 0 /\ ThrewOnAll(ca_out[1].calls[1])) =>
    /\ Cardinality({k \in 1..Len(ca_out[1].errors) :
                      ca_out[1].errors[k].engine = ca_out[1].calls[1].engine}) = 1
    /\ \A i \in 1..Len(ca_out[1].predictions) :
         Has(ca_out[1].predictions[i], "ocr_digits")

(***************************************************************************)
(* Properties of the digits-only branch of a page, checked under SpecPage. *)
(***************************************************************************)
\* the OCR functions called on the page processed last
PageCalls == page_log[1].calls

\* C19: with ocr and digits_only on, every detection of a processed page
\* whose confidence is not below min_confidence has an ocr_digits field,
\* whichever of easyocr, tesseract and keras-ocr read digits, read nothing,
\* raised on a crop or could not be imported.
C19_DigitsFieldPresent ==
  (PageDone /\ cfg.ocr /\ cfg.digits_only) =>
    \A i \in 1..Len(page_log[1].detected) :
      page_log[1].detected[i].confidence >= cfg.min_confidence =>
        Has(LastResult.predictions[i], "ocr_digits")

\* neither digit engine nor keras-ocr can be imported, and the detection
\* has empty digits all the same
C19_Witness ==
  /\ PageDone /\ cfg.ocr /\ cfg.digits_only
  /\ ~env.easyocr /\ ~env.tesseract /\ ~env.keras_ocr
  /\ Len(LastResult.predictions) > 0
  /\ Unflagged(LastResult.predictions[1])
  /\ Has(LastResult.predictions[1], "ocr_digits")
  /\ LastResult.predictions[1].ocr_digits = <<>>
  /\ Has(LastResult, "digits_engine_errors")
  /\ Len(PageCalls) = 3

\* C20: with digits_only on, no detection of a processed page carries
\* ocr_words or ocr_text, whether the digit engines read digits, failed, or
\* the general OCR was used or failed.
C20_NoTextualFields ==
  (PageDone /\ cfg.digits_only) =>
    \A i \in 1..Len(LastResult.predictions) :
      /\ ~Has(LastResult.predictions[i], "ocr_words")
      /\ ~Has(LastResult.predictions[i], "ocr_text")

\* a digit engine read a text, the general OCR was used as well, and the
\* detections carry digits only
C20_Witness ==
  /\ PageDone /\ cfg.ocr /\ cfg.digits_only
  /\ \E c \in 1..Len(PageCalls) :
       /\ PageCalls[c].engine \in {"easyocr", "tesseract"}
       /\ ~PageCalls[c].raised
       /\ \E i \in PageCalls[c].pending : PageCalls[c].reads[i].out # <<>>
  /\ \E c \in 1..Len(PageCalls) :
       PageCalls[c].engine = "keras_ocr" /\ ~PageCalls[c].raised
  /\ \E i \in 1..Len(LastResult.predictions) :
       /\ Has(LastResult.predictions[i], "ocr_digits")
       /\ LastResult.predictions[i].ocr_digits # <<>>
  /\ \A i \in 1..Len(LastResult.predictions) :
       DOMAIN LastResult.predictions[i] \cap {"ocr_words", "ocr_text"} = {}

\* the digit engine whose call produced digits for detection i of the page
\* processed last, or "none"
ProducedBy(i) ==
  IF \E c \in 1..Len(PageCalls) :
       /\ PageCalls[c].engine \in _DIGITS_ENGINE_FUNCS
       /\ DigitsRead(PageCalls[c], i) # <<>>
  THEN (PageCalls[CHOOSE c \in 1..Len(PageCalls) :
                    /\ PageCalls[c].engine \in _DIGITS_ENGINE_FUNCS
                    /\ DigitsRead(PageCalls[c], i) # <<>>]).engine
  ELSE "none"

\* C21: with ocr and digits_only on, every detection of a processed page
\* that passed the confidence gate carries ocr_digits_engine: the name of
\* the digit engine that produced its digits, or "none" when no digit
\* engine did (digits from the general OCR, or empty digits).
C21_EngineProvenance ==
  (PageDone /\ cfg.ocr /\ cfg.digits_only) =>
    \A i \in 1..Len(page_log[1].detected) :
      page_log[1].detected[i].confidence >= cfg.min_confidence =>
        /\ Has(LastResult.predictions[i], "ocr_digits_engine")
        /\ LastResult.predictions[i].ocr_digits_engine = ProducedBy(i)

(***************************************************************************)
(* Properties of _normalize_to_digits, checked under SpecNormalize.        *)
(***************************************************************************)
\* C22: normalizing the result of _normalize_to_digits gives that result
\* again.
C22_NormalizeIdempotent ==
  nz_pc = "again" => nz_ret[2] = nz_ret[1]

\* a letter of the table and a letter outside it: "5" both times
C22_Witness ==
  /\ nz_pc = "again"
  /\ nz_text = <<"S", "x">>
  /\ nz_ret = << <<"5">>, <<"5">> >>

\* the digit the confusion table of the claim gives for a character
TableDigit(ch) ==
  CASE ch \in {"O", "o", "D", "Q"} -> "0"
    [] ch \in {"I", "l", "|", "!"} -> "1"
    [] ch = "Z" -> "2"
    [] ch = "E" -> "3"
    [] ch = "A" -> "4"
    [] ch \in {"S", "s"} -> "5"
    [] ch = "G" -> "6"
    [] ch = "T" -> "7"
    [] ch = "B" -> "8"
    [] ch \in {"g", "q"} -> "9"
    [] OTHER -> ch

\* C23: for every text the call returns; the result holds only characters
\* 0-9; it is the text with each character of the confusion table replaced
\* by its digit and every other character that is not 0-9 removed, in the
\* order of the text; the empty text gives the empty string.
C23_NormalizeToAsciiDigits ==
  nz_pc = "return" =>
    /\ \A k \in 1..Len(nz_ret[1]) : IsDigit(nz_ret[1][k])
    /\ nz_ret[1] = SelectSeq([k \in 1..Len(nz_text) |-> TableDigit(nz_text[k])], IsDigit)
    /\ nz_text = <<>> => nz_ret[1] = <<>>

(***************************************************************************)
(* Properties of the crops, checked under SpecCrop.                        *)
(***************************************************************************)
\* the box lies beyond one side of the image [0, w] x [0, h], apart from
\* it; b in half pixels
OutsideImage(b, img) ==
  \/ 2 * b.x - b.width > 4 * img.w
  \/ 2 * b.x + b.width < 0
  \/ 2 * b.y - b.height > 4 * img.h
  \/ 2 * b.y + b.height < 0

\* the crops of the call that come out empty
EmptyCrops ==
  {i \in 1..Len(cr_in[1].boxes) :
     IsEmptyCrop(_crop_with_pad(cr_in[1].img, Prediction(cr_in[1].boxes[i])))}

\* C25: _crop_with_pad returns the empty crop for a box that lies outside the
\* image on some side; _preprocess_crop returns an empty crop as it is; an
\* engine leaves a detection whose crop is empty with empty digits and goes
\* on to the next detection.
C25_CropClamping ==
  /\ cr_pc # "crop" /\ OutsideImage(cr_in[1].boxes[1], cr_in[1].img)
       => IsEmptyCrop(cr_out[1].crop)
  /\ cr_pc \in {"engine", "done"} /\ IsEmptyCrop(cr_out[1].crop)
       => cr_out[1].preprocessed = cr_out[1].crop
  /\ cr_pc = "done" =>
       /\ Len(cr_out[1].predictions) = Len(cr_in[1].boxes)
       /\ \A i \in EmptyCrops :
            /\ Has(cr_out[1].predictions[i], "ocr_digits")
            /\ cr_out[1].predictions[i].ocr_digits = <<>>

(***************************************************************************)
(* Frame properties of one iteration of the page loop.                     *)
(***************************************************************************)
\* C24: on a processed page every detection leaves with the confidence
\* predict_array gave it, and a detection for which a digit engine read a
\* non-empty string of digits leaves with exactly that string, whatever the
\* later engines and the general-OCR fallback did.
C24_ConfidenceAndDigitsKept ==
  PageDone =>
    \A i \in 1..Len(page_log[1].detected) :
      /\ LastResult.predictions[i].confidence = page_log[1].detected[i].confidence
      /\ \A c \in 1..Len(PageCalls) :
           (PageCalls[c].engine \in _DIGITS_ENGINE_FUNCS
              /\ DigitsRead(PageCalls[c], i) # <<>>)
             => /\ Has(LastResult.predictions[i], "ocr_digits")
                /\ LastResult.predictions[i].ocr_digits = DigitsRead(PageCalls[c], i)

\* the first engine read digits for the first detection only, a second
\* engine was called, and the fallback gave the second detection "5" from
\* the general OCR while the first kept what the engine read
C24_Witness ==
  /\ PageDone /\ cfg.ocr /\ cfg.digits_only
  /\ Len(page_log[1].detected) = 2
  /\ Len(PageCalls) = 3
  /\ DigitsRead(PageCalls[1], 1) = PyStr(page_log[1].page_num)
  /\ PageCalls[2].pending = {2}
  /\ PageCalls[3].engine = "keras_ocr" /\ ~PageCalls[3].raised
  /\ LastResult.predictions[1].ocr_digits = PyStr(page_log[1].page_num)
  /\ LastResult.predictions[2].ocr_digits = <<"5">>
  /\ LastResult.predictions[1].confidence = cfg.min_confidence
  /\ LastResult.predictions[2].confidence = cfg.min_confidence

(***************************************************************************)
(* Properties of the resources of a process, checked under SpecProcess.    *)
(***************************************************************************)
Resources == {"model", "easyocr", "keras_ocr"}

\* the global that holds a resource
Global(r) ==
  CASE r = "model" -> model
    [] r = "easyocr" -> _easyocr_reader
    [] r = "keras_ocr" -> _ocr_pipeline

\* the calls that asked for the resource and got it
Served(r) == {j \in 1..Len(used) : used[j].resource = r /\ ~used[j].raised}

\* C26: in a sequence of calls of one process each of the detection model,
\* the EasyOCR reader and the keras-ocr pipeline is constructed at most
\* once, by the first call that gets it and not before any call asks for
\* it; every later call gets that same object and the global keeps it.
C26_LazySingleInit ==
  \A r \in Resources :
    LET built == {k \in 1..Len(constructed) : constructed[k].resource = r}
    IN /\ Cardinality(built) <= 1
       /\ built = {} <=> Served(r) = {}
       /\ built = {} <=> Global(r) = "None"
       /\ \A k \in built : \A j \in Served(r) :
            /\ used[j].instance = constructed[k].instance
            /\ Global(r) = constructed[k].instance

\* the first construction of the model raised, the second call built it and
\* two later calls were served with that object
C26_Witness ==
  /\ Len(used) = 4
  /\ \A j \in 1..4 : used[j].resource = "model"
  /\ used[1].raised
  /\ Served("model") = {2, 3, 4}
  /\ constructed = <<Built("model", "YOLO#1")>>
  /\ used[4].instance = "YOLO#1"
  /\ model = "YOLO#1" /\ MODEL_TYPE = "ultralytics"

(***************************************************************************)
(* Properties of the foliation comparison of a page, checked under Spec.   *)
(***************************************************************************)
\* C27: on a processed page a detection has a foliation_check if and only
\* if digits_only is on and it has an ocr_digits field, which is the case if
\* and only if ocr and digits_only are on and its confidence is not below
\* min_confidence; the check is compare_foliation of its digits, empty or
\* not, and the number of its own page.
C27_FoliationCheckIffDigits ==
  PageDone =>
    /\ LastResult.page_number = page_log[1].page_num
    /\ \A i \in 1..Len(page_log[1].detected) :
         LET p == LastResult.predictions[i]
             passed == page_log[1].detected[i].confidence >= cfg.min_confidence
         IN /\ Has(p, "foliation_check") <=> (cfg.digits_only /\ Has(p, "ocr_digits"))
            /\ (cfg.digits_only /\ Has(p, "ocr_digits"))
                 <=> (cfg.ocr /\ cfg.digits_only /\ passed)
            /\ Has(p, "foliation_check") =>
                 p.foliation_check = compare_foliation(p.ocr_digits, page_log[1].page_num)

\* the second page of a document: a detection with empty digits has a check
\* that is no match, one that read "2" has a match, and a detection below
\* min_confidence would have none
C27_Witness ==
  /\ PageDone /\ cfg.ocr /\ cfg.digits_only
  /\ page_log[1].page_num = 2
  /\ Len(LastResult.predictions) = 2
  /\ \A i \in 1..2 : Has(LastResult.predictions[i], "foliation_check")
  /\ LastResult.predictions[1].ocr_digits = <<>>
  /\ ~LastResult.predictions[1].foliation_check.match
  /\ LastResult.predictions[1].foliation_check.diff = None
  /\ LastResult.predictions[2].ocr_digits = <<"2">>
  /\ LastResult.predictions[2].foliation_check.match

(***************************************************************************)
(* Properties of the response, checked under Spec.                         *)
(***************************************************************************)
\* C28: in the summary of every answered run pages_without_match lies
\* between 0 and total_pages and exact_matches is at most total_pages,
\* however many detections of a page match its number.
C28_MatchCountsWithinPages ==
  Answered =>
    LET sm == response.summary
    IN /\ 0 <= sm.pages_without_match
       /\ sm.pages_without_match <= sm.total_pages
       /\ sm.exact_matches <= sm.total_pages

\* C29: in every answered run the image_dimensions of each page result are
\* the width and height of the image of that page, failed pages included.
C29_OwnImageDimensions ==
  Answered =>
    \A i \in 1..Len(response.pages) :
      /\ Has(response.pages[i], "image_dimensions")
      /\ response.pages[i].image_dimensions =
           [width |-> pages[i].shape.w, height |-> pages[i].shape.h]

(***************************************************************************)
(* Properties of two concurrent first calls, checked under SpecRace.       *)
(***************************************************************************)
\* C30: in every interleaving of two first calls of predict_array, a call
\* that got past `model is None` takes the branch of the MODEL_TYPE that
\* goes with the stored model (the ultralytics branch for a YOLO object, the
\* roboflow branch for an InferenceHTTPClient), and the model is constructed
\* at most once.
C30_RaceFreeInit ==
  /\ \A t \in Threads :
       threads[t].pc \in {"infer", "done"} => threads[t].branch = ModelType(env)
  /\ Len(constructed) <= 1

====
